---- MODULE Spec2Model ----
(***************************************************************************)
(* The GitHub enrichment engine of mcp-scorecard                           *)
(* (src/src/mcp_scorecard/enrichers/github.py): the cache store, the rate  *)
(* budget tracker, the fetch worker and the orchestrator, as one state     *)
(* machine.                                                                *)
(*                                                                         *)
(* Scheduling.  The engine runs on one asyncio event loop.  A coroutine    *)
(* runs without interruption from one suspension to the next, so every     *)
(* action below is one such stretch.  The suspensions are the HTTP calls   *)
(* (client.get), the wait for a semaphore slot, asyncio.sleep(2) and the   *)
(* gathers.  asyncio.Lock.acquire and asyncio.Semaphore.acquire do not     *)
(* suspend when the lock or a slot is free, and the bodies of the two      *)
(* `async with self._rate_lock` blocks contain no await, so the lock is    *)
(* free whenever a coroutine asks for it.  The tasks a gather creates run  *)
(* their first stretch, in creation order, before the loop hands any       *)
(* response to a waiting task.                                             *)
(*                                                                         *)
(* Values.  A Python value that may be None is a sequence of length at     *)
(* most one: None is << >>, the value v is <<v>>.  A dict is a function.   *)
(***************************************************************************)
EXTENDS Integers, Sequences, FiniteSets, TLC

(***************************************************************************)
(* Bounds of the model.                                                    *)
(***************************************************************************)
\* servers of the registry list given to one run of the engine
NumServers == 2
\* servers of the work list in the specification of the batch waves
WaveServers == 5
\* runs of the entry point in the specification of repeated runs
MaxRuns == 2
\* times the clock may advance between two runs
MaxTicks == 1
\* weeks of a participation series (the provider reports 52)
MaxWeeks == 52
\* environment variables a server entry declares
MaxEnvVars == 5
\* servers of the registry list in the specification of the fixed answers
FixedServers == 3

(***************************************************************************)
(* Program constants.                                                      *)
(***************************************************************************)
\* config.GITHUB_CONCURRENT_REQUESTS is 10; the model runs the same code
\* with 2 slots, so that a batch of 2 workers (6 sub-fetches) queues for
\* slots as a batch of 10 workers (30 sub-fetches) does for 10.
GITHUB_CONCURRENT_REQUESTS == 2
GITHUB_RATE_LIMIT_BUFFER == 100
GITHUB_CACHE_MAX_AGE_DAYS == 7
SecondsPerDay == 86400
\* asyncio.gather in _enrich_one is given three coroutines
SubFetchesPerWorker == 3

None == << >>
Some(v) == <<v>>
IsNone(x) == x = << >>
Val(x) == x[1]

EmptyDict == [k \in {} |-> k]
\* dict.get(key) on a dict whose values are stored as optional values
Get(d, k) == IF k \in DOMAIN d THEN d[k] ELSE None

\* what json.load or resp.json() returns for a JSON array: a value on which
\* .get and .items raise AttributeError; it is told from the objects by its
\* key
ArrayJson == [array |-> Some(<<1>>)]
IsJsonObject(v) == "array" \notin DOMAIN v

\* a JSON string where the code expects a number: a pair, unlike None and
\* the values Some(v)
JsonString(chars) == <<chars, "string">>
IsJsonString(x) == Len(x) = 2

Max(a, b) == IF a >= b THEN a ELSE b
Min(a, b) == IF a <= b THEN a ELSE b

(***************************************************************************)
(* _estimate_contributors                                                  *)
(***************************************************************************)
\* sum(1 for w in weeks if w > 0): the number of positions with a commit
ActiveWeeks(weeks) == Cardinality({j \in 1..Len(weeks) : weeks[j] > 0})

\* sum(1 for a, o in zip(all_weeks, owner_weeks) if a > o)
OtherWeeks(all_weeks, owner_weeks) ==
    Cardinality({j \in 1..Min(Len(all_weeks), Len(owner_weeks)) :
                    all_weeks[j] > owner_weeks[j]})

\* tiers whose lower boundaries belong to the tier below
TierOf_Above(other_weeks) ==
    IF other_weeks > 40 THEN 10
    ELSE IF other_weeks > 25 THEN 7
    ELSE IF other_weeks > 15 THEN 5
    ELSE IF other_weeks > 8 THEN 3
    ELSE 2

TierOf(other_weeks) ==
    IF other_weeks >= 40 THEN 10
    ELSE IF other_weeks >= 25 THEN 7
    ELSE IF other_weeks >= 15 THEN 5
    ELSE IF other_weeks >= 8 THEN 3
    ELSE 2

EstimateContributors(all_weeks, owner_weeks) ==
    IF Len(all_weeks) = 0 THEN None
    ELSE IF Len(owner_weeks) = 0 \/ Len(owner_weeks) # Len(all_weeks)
    THEN LET active == ActiveWeeks(all_weeks)
         IN  IF active > 0 THEN Some(Max(1, active \div 10)) ELSE None
    ELSE LET other_weeks == OtherWeeks(all_weeks, owner_weeks)
             total_active == ActiveWeeks(all_weeks)
         IN  IF total_active = 0 THEN None
             ELSE IF other_weeks = 0 THEN Some(1)
             ELSE Some(TierOf(other_weeks))

(***************************************************************************)
(* The cache store: _load_cache, _save_cache, _is_stale and the merge and  *)
(* the clean-up of enrich.                                                 *)
(***************************************************************************)
CachedAtKey == "_cached_at"
\* the keys k of a cache entry with k.startswith("_")
StartsWithUnderscore(k) == k = CachedAtKey

\* json.dump writes the mapping as the members of one JSON object; the file
\* is the set of its (key, entry) members, and an absent file is None
DumpJson(cache) == {<<name, cache[name]>> : name \in DOMAIN cache}
ParseJson(members) ==
    [name \in {m[1] : m \in members} |-> (CHOOSE m \in members : m[1] = name)[2]]

\* a file that does not hold a JSON object: "unreadable" (open or read fails
\* with OSError), "invalid" (json.load raises JSONDecodeError), "array"
\* (a JSON array), and during a save "empty" (opened for writing, nothing
\* written) or "truncated" (a part of the JSON text written)
OtherFile(kind) == <<kind, "file">>
IsOtherFile(file) == Len(file) = 2

LoadCache(file) ==
    IF IsNone(file) THEN EmptyDict
    ELSE IF IsOtherFile(file)
    THEN IF file[1] = "array" THEN ArrayJson ELSE EmptyDict
    ELSE ParseJson(Val(file))
SaveCache(cache) ==
    IF IsJsonObject(cache) THEN Some(DumpJson(cache)) ELSE OtherFile("array")

\* a staleness test that trusts no entry
IsStale_Always(entry, now_) == TRUE

\* a staleness test that counts an entry of exactly the maximum age as stale
IsStale_AtMaxAge(entry, now_) ==
    LET cached_at == Get(entry, CachedAtKey)
    IN  IF IsNone(cached_at) THEN TRUE
        ELSE (now_ - Val(cached_at)) >= GITHUB_CACHE_MAX_AGE_DAYS * SecondsPerDay

\* _is_stale raises: entry.get on an entry that is not an object
\* (AttributeError), or time.time() - cached_at on a string (TypeError)
IsStaleRaises(entry) ==
    \/ ~IsJsonObject(entry)
    \/ IsJsonString(Get(entry, CachedAtKey))

\* age_days = (time.time() - cached_at) / 86400 is a real division, so
\* age_days > 7 exactly when the difference exceeds 7 * 86400 seconds
IsStale(entry, now_) ==
    LET cached_at == Get(entry, CachedAtKey)
    IN  IF IsNone(cached_at) THEN TRUE
        ELSE (now_ - Val(cached_at)) > GITHUB_CACHE_MAX_AGE_DAYS * SecondsPerDay

\* a merge that keeps the fresh entries only
Merge_FreshOnly(cache, fresh, now_) ==
    [name \in DOMAIN fresh |-> (CachedAtKey :> Some(now_)) @@ fresh[name]]

\* a merge that leaves the timestamp of an entry it replaces as it was
Merge_KeepStamp(cache, fresh, now_) ==
    [name \in DOMAIN cache \cup DOMAIN fresh |->
        IF name \in DOMAIN fresh
        THEN (CachedAtKey :>
                 IF name \in DOMAIN cache /\ CachedAtKey \in DOMAIN cache[name]
                 THEN cache[name][CachedAtKey] ELSE Some(now_)) @@ fresh[name]
        ELSE cache[name]]

\* for name, data in fresh.items(): cache[name] = {**data, "_cached_at": now}
Merge(cache, fresh, now_) ==
    [name \in DOMAIN cache \cup DOMAIN fresh |->
        IF name \in DOMAIN fresh
        THEN (CachedAtKey :> Some(now_)) @@ fresh[name]
        ELSE cache[name]]

\* {k: v for k, v in entry.items() if not k.startswith("_")} for every entry
StripInternal(cache) ==
    [name \in DOMAIN cache |->
        [k \in {f \in DOMAIN cache[name] : ~StartsWithUnderscore(f)} |-> cache[name][k]]]

(***************************************************************************)
(* _parse_repo_url.  A URL is the record of the parts the pattern          *)
(* ^https?://github\.com/([^/]+)/([^/.]+?)(?:\.git)?/?$ tells apart: the   *)
(* scheme, the host, the path segments (a trailing .git and a trailing     *)
(* slash removed) and whether the last segment still holds a dot.          *)
(***************************************************************************)
GitHubUrl(owner, repo) ==
    [scheme |-> "https", host |-> "github.com", segs |-> <<owner, repo>>, dotted |-> FALSE]

\* a parser that does not look at the host
ParseRepoUrl_AnyHost(url) ==
    IF /\ url.scheme \in {"http", "https"}
       /\ Len(url.segs) = 2
       /\ ~url.dotted
    THEN Some([owner |-> url.segs[1], repo |-> url.segs[2]])
    ELSE None

ParseRepoUrl(url) ==
    IF /\ url.scheme \in {"http", "https"}
       /\ url.host = "github.com"
       /\ Len(url.segs) = 2
       /\ ~url.dotted
    THEN Some([owner |-> url.segs[1], repo |-> url.segs[2]])
    ELSE None

\* the loop that builds the work list raises: _is_stale does, for the cache
\* entry of a server with a URL that parses
BuildWorkRaises(srvs, cache) ==
    \E j \in 1..Len(srvs) :
        /\ ~IsNone(srvs[j].repo_url)
        /\ ~IsNone(ParseRepoUrl(Val(srvs[j].repo_url)))
        /\ srvs[j].name \in DOMAIN cache
        /\ IsStaleRaises(cache[srvs[j].name])

\* the work list of run: the servers with a URL that parses and no fresh
\* cache entry, in the order of the list
RECURSIVE BuildWork(_, _, _)
BuildWork(srvs, cache, now_) ==
    IF srvs = << >> THEN << >>
    ELSE LET srv == Head(srvs)
             rest == BuildWork(Tail(srvs), cache, now_)
             url == srv.repo_url
             parsed == IF IsNone(url) THEN None ELSE ParseRepoUrl(Val(url))
         IN  IF IsNone(url) THEN rest
             ELSE IF IsNone(parsed) THEN rest
             ELSE IF srv.name \in DOMAIN cache /\ ~IsStale(cache[srv.name], now_) THEN rest
             ELSE <<[name |-> srv.name, owner |-> Val(parsed).owner,
                     repo |-> Val(parsed).repo]>> \o rest

(***************************************************************************)
(* The rate budget tracker: _update_rate_limit and _check_rate_limit.      *)
(***************************************************************************)
DigitChars == <<"0", "1", "2", "3", "4", "5", "6", "7", "8", "9">>
DigitSet == {DigitChars[d] : d \in 1..Len(DigitChars)}
DigitValues == [c \in DigitSet |-> (CHOOSE d \in 1..Len(DigitChars) : DigitChars[d] = c) - 1]
IsDigit(c) == c \in DigitSet
DigitValue(c) == DigitValues[c]

\* int(raw) of a header value given as its characters: blanks around the
\* number are ignored, a sign may come first, and the digits may be grouped
\* by single underscores; anything else is a ValueError
IsBlank(c) == c \in {" ", "\t", "\n", "\r"}
IntText(raw) ==
    LET ink == {j \in 1..Len(raw) : ~IsBlank(raw[j])}
    IN  IF raw = << >> \/ (~IsBlank(raw[1]) /\ ~IsBlank(raw[Len(raw)])) THEN raw
        ELSE IF ink = {} THEN << >>
        ELSE SubSeq(raw, CHOOSE j \in ink : \A k \in ink : j <= k,
                         CHOOSE j \in ink : \A k \in ink : j >= k)
IsSigned(txt) == Len(txt) > 0 /\ txt[1] \in {"+", "-"}
IntDigits(raw) == IF IsSigned(IntText(raw)) THEN Tail(IntText(raw)) ELSE IntText(raw)
IsIntLiteral(raw) ==
    LET d == IntDigits(raw)
    IN  /\ Len(d) > 0
        /\ IsDigit(d[1]) /\ IsDigit(d[Len(d)])
        /\ \A j \in 1..Len(d) : IsDigit(d[j]) \/ d[j] = "_"
        /\ \A j \in 1..(Len(d) - 1) : ~(d[j] = "_" /\ d[j + 1] = "_")
RECURSIVE DigitsValue(_)
DigitsValue(d) ==
    IF Len(d) = 0 THEN 0
    ELSE IF d[Len(d)] = "_" THEN DigitsValue(SubSeq(d, 1, Len(d) - 1))
    ELSE 10 * DigitsValue(SubSeq(d, 1, Len(d) - 1)) + DigitValue(d[Len(d)])
IntOf(raw) ==
    IF IsSigned(IntText(raw)) /\ IntText(raw)[1] = "-"
    THEN 0 - DigitsValue(IntDigits(raw))
    ELSE DigitsValue(IntDigits(raw))

\* a tracker that recomputes the flag from every reading
UpdateRateLimit_Recompute(raw, remaining, exh) ==
    IF IsNone(raw) THEN [rate_remaining |-> remaining, exhausted |-> exh]
    ELSE IF ~IsIntLiteral(Val(raw)) THEN [rate_remaining |-> remaining, exhausted |-> exh]
    ELSE [rate_remaining |-> Some(IntOf(Val(raw))),
          exhausted |-> IntOf(Val(raw)) < GITHUB_RATE_LIMIT_BUFFER]

\* a tracker that halts only once the provider reports nothing left
UpdateRateLimit_NoBuffer(raw, remaining, exh) ==
    IF IsNone(raw) THEN [rate_remaining |-> remaining, exhausted |-> exh]
    ELSE IF ~IsIntLiteral(Val(raw)) THEN [rate_remaining |-> remaining, exhausted |-> exh]
    ELSE [rate_remaining |-> Some(IntOf(Val(raw))),
          exhausted |-> IF IntOf(Val(raw)) < 1 THEN TRUE ELSE exh]

\* a tracker that halts at the buffer already
UpdateRateLimit_AtBuffer(raw, remaining, exh) ==
    IF IsNone(raw) THEN [rate_remaining |-> remaining, exhausted |-> exh]
    ELSE IF ~IsIntLiteral(Val(raw)) THEN [rate_remaining |-> remaining, exhausted |-> exh]
    ELSE [rate_remaining |-> Some(IntOf(Val(raw))),
          exhausted |-> IF IntOf(Val(raw)) <= GITHUB_RATE_LIMIT_BUFFER THEN TRUE ELSE exh]

\* the tracker after a response with the X-RateLimit-Remaining header `raw`
\* (None when the response has no such header)
UpdateRateLimit(raw, remaining, exh) ==
    IF IsNone(raw) THEN [rate_remaining |-> remaining, exhausted |-> exh]
    ELSE IF ~IsIntLiteral(Val(raw)) THEN [rate_remaining |-> remaining, exhausted |-> exh]
    ELSE [rate_remaining |-> Some(IntOf(Val(raw))),
          exhausted |-> IF IntOf(Val(raw)) < GITHUB_RATE_LIMIT_BUFFER THEN TRUE ELSE exh]

\* whether _check_rate_limit raises _RateLimitExhausted
CheckRateLimit(exh) == exh

(***************************************************************************)
(* _get after its request has completed.  An outcome is the record         *)
(* [error, status, header, shape]: a transport failure (httpx.HTTPError)   *)
(* or a response with its status code, its X-RateLimit-Remaining header    *)
(* and the shape of its body: "object" (the JSON object the caller         *)
(* expects), "array" (JSON, but not an object) or "text" (not JSON).       *)
(***************************************************************************)
TransportError == [error |-> TRUE, status |-> 0, header |-> None, shape |-> "object"]
Response(status, header) ==
    [error |-> FALSE, status |-> status, header |-> header, shape |-> "object"]
ShapedResponse(status, header, shape) ==
    [Response(status, header) EXCEPT !.shape = shape]

\* a _get that drops every response once the tracker is exhausted, not only
\* the 403s
GetResult_DropWhenExhausted(outcome, remaining, exh) ==
    IF outcome.error
    THEN [resp |-> None, rate_remaining |-> remaining, exhausted |-> exh]
    ELSE LET u == UpdateRateLimit(outcome.header, remaining, exh)
         IN  [resp |-> IF outcome.status = 403 \/ u.exhausted THEN None ELSE Some(outcome),
              rate_remaining |-> u.rate_remaining,
              exhausted |-> u.exhausted]

GetResult(outcome, remaining, exh) ==
    IF outcome.error
    THEN [resp |-> None, rate_remaining |-> remaining, exhausted |-> exh]
    ELSE LET u == UpdateRateLimit(outcome.header, remaining, exh)
         IN  [resp |-> IF outcome.status = 403 /\ u.exhausted THEN None ELSE Some(outcome),
              rate_remaining |-> u.rate_remaining,
              exhausted |-> u.exhausted]

(***************************************************************************)
(* The per-repo fetchers.  A fetcher's result is [next, res]: next is      *)
(* "done" with the sub-fetch's result res (None or the JSON body),         *)
(* "sleep" when _fetch_participation goes on to asyncio.sleep(2), or       *)
(* "error" when resp.json() raises on a body that is not JSON.             *)
(***************************************************************************)
MetaJson ==
    [stargazers_count |-> Some(5), forks_count |-> Some(1), subscribers_count |-> Some(2),
     archived |-> Some(FALSE), license |-> Some([spdx_id |-> Some("MIT")]),
     created_at |-> Some("2024-01-01"), pushed_at |-> Some("2025-01-01")]
CommunityJson ==
    [files |-> Some([security |-> Some("SECURITY.md"), code_of_conduct |-> None]),
     health_percentage |-> Some(80)]
ParticipationJson ==
    [all |-> Some(<<2, 0, 1>>), owner |-> Some(<<1, 0, 1>>)]

Kinds == <<"meta", "community", "participation">>
KindSet == {Kinds[j] : j \in 1..Len(Kinds)}
JsonOf(kind) ==
    CASE kind = "meta" -> MetaJson
      [] kind = "community" -> CommunityJson
      [] kind = "participation" -> ParticipationJson

\* return resp.json()
ReadJson(kind, resp) ==
    CASE Val(resp).shape = "text" -> [next |-> "error", res |-> None]
      [] Val(resp).shape = "array" -> [next |-> "done", res |-> Some(ArrayJson)]
      [] OTHER -> [next |-> "done", res |-> Some(JsonOf(kind))]

\* _fetch_repo_metadata and _fetch_community_profile
FetchSimple(kind, resp) ==
    IF IsNone(resp) \/ Val(resp).status # 200
    THEN [next |-> "done", res |-> None]
    ELSE ReadJson(kind, resp)

\* a fetcher that waits and retries after every 202, as a retry loop would
FetchParticipation_RetryLoop(attempt, resp) ==
    IF IsNone(resp) THEN [next |-> "done", res |-> None]
    ELSE IF Val(resp).status = 202 THEN [next |-> "sleep", res |-> None]
    ELSE IF Val(resp).status # 200 THEN [next |-> "done", res |-> None]
    ELSE ReadJson("participation", resp)

\* _fetch_participation after its first (attempt 1) or second (attempt 2) _get
FetchParticipation(attempt, resp) ==
    IF attempt = 1
    THEN IF IsNone(resp) THEN [next |-> "done", res |-> None]
         ELSE IF Val(resp).status = 202 THEN [next |-> "sleep", res |-> None]
         ELSE IF Val(resp).status # 200 THEN [next |-> "done", res |-> None]
         ELSE ReadJson("participation", resp)
    ELSE IF IsNone(resp) \/ Val(resp).status # 200
         THEN [next |-> "done", res |-> None]
         ELSE ReadJson("participation", resp)

Fetch(kind, attempt, resp) ==
    IF kind = "participation" THEN FetchParticipation(attempt, resp)
    ELSE FetchSimple(kind, resp)

(***************************************************************************)
(* _enrich_one after its gather: the payload built from the three results. *)
(***************************************************************************)
MetaFields ==
    {"github_stars", "github_forks", "github_watchers", "github_archived",
     "github_license", "github_created_at", "github_pushed_at", "github_owner"}
CommunityFields ==
    {"github_has_security_md", "github_has_code_of_conduct", "github_health_percentage"}
ParticipationFields == {"github_commit_weeks_active", "github_contributors"}

MetaData(owner, meta) ==
    IF IsNone(meta) THEN EmptyDict
    ELSE LET m == Val(meta)
             license_info == Get(m, "license")
         IN  [k \in MetaFields |->
                CASE k = "github_stars" -> Get(m, "stargazers_count")
                  [] k = "github_forks" -> Get(m, "forks_count")
                  [] k = "github_watchers" -> Get(m, "subscribers_count")
                  [] k = "github_archived" -> Get(m, "archived")
                  [] k = "github_license" ->
                        IF IsNone(license_info) THEN None
                        ELSE Get(Val(license_info), "spdx_id")
                  [] k = "github_created_at" -> Get(m, "created_at")
                  [] k = "github_pushed_at" -> Get(m, "pushed_at")
                  [] k = "github_owner" -> Some(owner)]

CommunityData(community) ==
    IF IsNone(community) THEN EmptyDict
    ELSE LET c == Val(community)
             got == Get(c, "files")
             files == IF IsNone(got) THEN EmptyDict ELSE Val(got)
         IN  [k \in CommunityFields |->
                CASE k = "github_has_security_md" -> Some(~IsNone(Get(files, "security")))
                  [] k = "github_has_code_of_conduct" ->
                        Some(~IsNone(Get(files, "code_of_conduct")))
                  [] k = "github_health_percentage" -> Get(c, "health_percentage")]

ParticipationData(participation) ==
    IF IsNone(participation)
    THEN [k \in ParticipationFields |-> None]
    ELSE LET p == Val(participation)
             got_all == Get(p, "all")
             got_owner == Get(p, "owner")
             all_weeks == IF IsNone(got_all) THEN << >> ELSE Val(got_all)
             owner_weeks == IF IsNone(got_owner) THEN << >> ELSE Val(got_owner)
         IN  IF Len(all_weeks) > 0
             THEN [k \in ParticipationFields |->
                    IF k = "github_commit_weeks_active" THEN Some(ActiveWeeks(all_weeks))
                    ELSE EstimateContributors(all_weeks, owner_weeks)]
             ELSE [k \in ParticipationFields |-> None]

\* meta.get, community.get or participation.get raises AttributeError:
\* a result that is not None and not a JSON object
AssembleRaises(meta, community, participation) ==
    \E r \in {meta, community, participation} : ~IsNone(r) /\ ~IsJsonObject(Val(r))

AssembleData(owner, meta, community, participation) ==
    MetaData(owner, meta) @@ CommunityData(community) @@ ParticipationData(participation)

(***************************************************************************)
(* State.                                                                  *)
(*   servers         the list given to enrich: records [name, repo_url]    *)
(*   env             what the provider may answer and how often enrich is  *)
(*                   called: [statuses, headers, shapes, errors,           *)
(*                   probe_remaining, runs, tick_days, quota0, answers];   *)
(*                   it never changes                                      *)
(*   disk            the cache file: None when absent, else its members    *)
(*   now             time.time(), in seconds                               *)
(*   run, ticks      the number of the current call of enrich; clock steps *)
(*   pc              where enrich/run is: "idle" (not called), "probe"     *)
(*                   (awaiting the /rate_limit call), "loop" (at the top   *)
(*                   of the batch loop), "gather" (awaiting a batch),      *)
(*                   "merge" (run has returned to enrich), "returned",     *)
(*                   "raised" (enrich has raised an exception)             *)
(*   cache, cache0   the cache dict of enrich, and as it was loaded        *)
(*   work, i         the work list and the batch loop's index              *)
(*   results         run's results dict                                    *)
(*   rate_remaining, exhausted   the enricher's tracker                    *)
(*   sem, waitq      the semaphore: free slots and the tasks queued for one*)
(*   sub             per (name, kind) the sub-fetch task of the worker of  *)
(*                   `name`: [st, reqs, res] with st "idle" (no task),     *)
(*                   "wait" (queued for a slot), "sent" (request out),     *)
(*                   "sleep" (in asyncio.sleep(2)), "done" (returned res), *)
(*                   "raised" (_RateLimitExhausted) or "error" (another    *)
(*                   exception); reqs counts the requests the task has     *)
(*                   issued, seq is the number in the run of its last one  *)
(*                   when the provider counts                              *)
(*   sent            the requests issued to the provider in this run       *)
(*   waves           the batches dispatched so far, each a list of names   *)
(*   probe_low       whether the probe's answer reported a remaining quota *)
(*                   under the buffer (header or body)                     *)
(*   ret, prev_ret   what enrich returned (None before), and what the      *)
(*                   previous call returned                                *)
(*   prev_now        the clock when the previous call returned             *)
(***************************************************************************)
VARIABLES servers, env, disk, now, run, ticks, pc, cache, cache0, work, i, results,
          rate_remaining, exhausted, sem, waitq, sub, sent, waves, probe_low,
          ret, prev_ret, prev_now

(***************************************************************************)
(* The functions outside the engine are called one at a time:              *)
(*   call            the call at hand, a record with the function's name   *)
(*                   fn and its arguments; NoCall in the engine's runs     *)
(*   out             << >> until the call has returned, then <<value>>     *)
(***************************************************************************)
VARIABLES call, out

engine == <<servers, env, disk, now, run, ticks, pc, cache, cache0, work, i, results,
            rate_remaining, exhausted, sem, waitq, sub, sent, waves, probe_low,
            ret, prev_ret, prev_now>>

vars == <<engine, call, out>>

NoCall == [fn |-> "none"]

ServerNames == <<"a", "b", "c", "d", "e", "f", "g", "h">>
NamesOf(srvs) == {srvs[j].name : j \in 1..Len(srvs)}
TaskIds == NamesOf(servers) \X KindSet
IdleTask == [st |-> "idle", reqs |-> 0, res |-> None, seq |-> 0]

Outcomes ==
    {ShapedResponse(s, h, b) : s \in env.statuses, h \in env.headers, b \in env.shapes}
        \cup (IF env.errors THEN {TransportError} ELSE {})

(***************************************************************************)
(* A provider that counts.  With env.quota0 = Some(q) the provider starts  *)
(* the run with a remaining quota of q, takes one off for every request it *)
(* receives, answers 403 to a request that finds none left, and reports in *)
(* every response the remaining quota of some moment between the receipt   *)
(* of the request and the arrival of the response.  The request that was   *)
(* the seq-th of the run is answered accordingly.                          *)
(***************************************************************************)
\* str(n) for n >= 0
RECURSIVE IntToChars(_)
IntToChars(n) ==
    IF n < 10 THEN <<DigitChars[n + 1]>>
    ELSE IntToChars(n \div 10) \o <<DigitChars[(n % 10) + 1]>>

\* the number of the next request of the run, kept when the provider counts
SeqOf(s) == IF IsNone(env.quota0) THEN 0 ELSE s.sent + 1

OutcomesFor(seq) ==
    IF IsNone(env.quota0) THEN Outcomes
    ELSE {ShapedResponse(st, Some(IntToChars(Max(0, Val(env.quota0) - k))), b) :
            st \in (IF Val(env.quota0) - seq >= 0 THEN env.statuses ELSE {403}),
            k \in seq..sent, b \in env.shapes}

\* resources.core.remaining of the probe's body
ProbeRemainingFor(outcome) ==
    IF ~IsNone(env.answers) THEN {Val(env.answers).core}
    ELSE IF IsNone(env.quota0) THEN env.probe_remaining
    ELSE {None, Some(IntOf(Val(outcome.header)))}

(***************************************************************************)
(* A provider that answers each request with a fixed response.  With       *)
(* env.answers = Some(a) the probe is answered with a.probe, whose body    *)
(* reports a.core, and the attempt-th request of the sub-fetch <<name,     *)
(* kind>> with a.sub[<<name, kind, attempt>>].                             *)
(***************************************************************************)
\* the answers the provider may give to the request task t has out
AnswersTo(t) ==
    IF IsNone(env.answers) THEN OutcomesFor(sub[t].seq)
    ELSE {Val(env.answers).sub[<<t[1], t[2], sub[t].reqs>>]}

\* the answers the provider may give to the probe
ProbeAnswers ==
    IF IsNone(env.answers) THEN OutcomesFor(1) ELSE {Val(env.answers).probe}

WorkItem(name) == CHOOSE w \in {work[j] : j \in 1..Len(work)} : w.name = name

\* batch = work[i : i + batch_size]
BatchAt(wk, idx) ==
    SubSeq(wk, idx + 1, Min(idx + GITHUB_CONCURRENT_REQUESTS, Len(wk)))
Batch == BatchAt(work, i)
BatchNames == {Batch[j].name : j \in 1..Len(Batch)}

\* the sub-fetch tasks of a batch in the order the gathers create them
TasksOf(batch) ==
    [j \in 1..(Len(batch) * SubFetchesPerWorker) |->
        <<batch[((j - 1) \div SubFetchesPerWorker) + 1].name,
          Kinds[((j - 1) % SubFetchesPerWorker) + 1]>>]

(***************************************************************************)
(* _get up to its request, for task t, on s = [sub, sem, waitq, sent]: the *)
(* rate check, then the semaphore.  A free slot is taken at once and the   *)
(* request goes out; otherwise the task queues.                            *)
(***************************************************************************)
\* a _get that issues its request without waiting for a free slot
GetStart_NoSemaphore(t, s, exh) ==
    IF CheckRateLimit(exh)
    THEN [s EXCEPT !.sub[t].st = "raised"]
    ELSE [s EXCEPT !.sub[t].st = "sent", !.sub[t].reqs = @ + 1, !.sub[t].seq = SeqOf(s),
                   !.sem = @ - 1, !.sent = @ + 1]

GetStart(t, s, exh) ==
    IF CheckRateLimit(exh)
    THEN [s EXCEPT !.sub[t].st = "raised"]
    ELSE IF s.sem > 0 /\ s.waitq = << >>
    THEN [s EXCEPT !.sub[t].st = "sent", !.sub[t].reqs = @ + 1, !.sub[t].seq = SeqOf(s),
                   !.sem = @ - 1, !.sent = @ + 1]
    ELSE [s EXCEPT !.sub[t].st = "wait", !.waitq = Append(@, t)]

\* a semaphore whose release frees the slot without waking a queued task
Release_NoWake(s) == [s EXCEPT !.sem = @ + 1]

\* the end of `async with self._semaphore`: the slot goes to the first
\* queued task, which issues its request without a second rate check
Release(s) ==
    IF s.waitq # << >>
    THEN LET t == Head(s.waitq)
         IN  [s EXCEPT !.sub[t].st = "sent", !.sub[t].reqs = @ + 1,
                       !.sub[t].seq = SeqOf(s), !.waitq = Tail(@), !.sent = @ + 1]
    ELSE [s EXCEPT !.sem = @ + 1]

RECURSIVE StartTasks(_, _, _)
StartTasks(tasks, s, exh) ==
    IF tasks = << >> THEN s
    ELSE StartTasks(Tail(tasks), GetStart(Head(tasks), s, exh), exh)

(***************************************************************************)
(* _enrich_one seen from its gather: the worker of `name` has returned     *)
(* when one of its sub-fetches has raised or all three are done.           *)
(***************************************************************************)
WorkerRaised(name) == \E k \in KindSet : sub[<<name, k>>].st = "raised"
WorkerFinished(name) ==
    WorkerRaised(name) \/ \A k \in KindSet : sub[<<name, k>>].st = "done"

\* with the tasks as in sub_, the worker of `name` raises an exception that
\* is not _RateLimitExhausted: one of its fetchers has raised it, or all
\* three have returned and the assembly of the payload raises
WorkerFails(sub_, name) ==
    /\ \A k \in KindSet : sub_[<<name, k>>].st # "raised"
    /\ \/ \E k \in KindSet : sub_[<<name, k>>].st = "error"
       \/ /\ \A k \in KindSet : sub_[<<name, k>>].st = "done"
          /\ AssembleRaises(sub_[<<name, "meta">>].res, sub_[<<name, "community">>].res,
                            sub_[<<name, "participation">>].res)
WorkerData(name) ==
    IF WorkerRaised(name) THEN EmptyDict
    ELSE AssembleData(WorkItem(name).owner, sub[<<name, "meta">>].res,
                      sub[<<name, "community">>].res, sub[<<name, "participation">>].res)

\* a probe that reads the header only and ignores the body's count
ProbeResult_HeaderOnly(outcome, core_remaining, remaining, exh) ==
    LET g == GetResult(outcome, remaining, exh)
    IN  [rate_remaining |-> g.rate_remaining, exhausted |-> g.exhausted]

\* the tracker after the probe: _get's update, then the body's
\* resources.core.remaining when the probe came back with status 200 and
\* the body is a JSON object
ProbeResult(outcome, core_remaining, remaining, exh) ==
    LET g == GetResult(outcome, remaining, exh)
    IN  IF ~IsNone(g.resp) /\ Val(g.resp).status = 200 /\ outcome.shape = "object"
        THEN [rate_remaining |-> core_remaining,
              exhausted |-> IF ~IsNone(core_remaining)
                               /\ Val(core_remaining) < GITHUB_RATE_LIMIT_BUFFER
                            THEN TRUE ELSE g.exhausted]
        ELSE [rate_remaining |-> g.rate_remaining, exhausted |-> g.exhausted]

\* the probe came back with a 200 whose body is not a JSON object
ProbeRaises(outcome) ==
    /\ ~outcome.error
    /\ outcome.status = 200
    /\ outcome.shape # "object"

(***************************************************************************)
(* Actions.                                                                *)
(***************************************************************************)
\* an enricher that enrich keeps from one call to the next
NewEnricher_Reused == [rate_remaining |-> rate_remaining, exhausted |-> exhausted]

\* GitHubEnricher(): _rate_remaining = None, _exhausted = False
NewEnricher == [rate_remaining |-> None, exhausted |-> FALSE]

\* enrich is called: load the cache, make the enricher, build the work
\* list (run works on `cache or {}`; an exception of _is_stale goes to the
\* caller) and, unless the list is empty, issue the probe
EnrichStart ==
    /\ pc = "idle"
    /\ LET loaded == LoadCache(disk)
           run_cache == IF IsJsonObject(loaded) THEN loaded ELSE EmptyDict
           raises == BuildWorkRaises(servers, run_cache)
           wk == IF raises THEN << >> ELSE BuildWork(servers, run_cache, now)
       IN  /\ cache' = loaded
           /\ cache0' = loaded
           /\ work' = wk
           /\ rate_remaining' = NewEnricher.rate_remaining
           /\ exhausted' = NewEnricher.exhausted
           /\ IF raises
              THEN pc' = "raised" /\ sem' = GITHUB_CONCURRENT_REQUESTS /\ sent' = 0
              ELSE IF wk = << >> \/ CheckRateLimit(FALSE)
              THEN pc' = "merge" /\ sem' = GITHUB_CONCURRENT_REQUESTS /\ sent' = 0
              ELSE pc' = "probe" /\ sem' = GITHUB_CONCURRENT_REQUESTS - 1 /\ sent' = 1
    /\ i' = 0
    /\ results' = EmptyDict
    /\ waitq' = << >>
    /\ sub' = [t \in TaskIds |-> IdleTask]
    /\ waves' = << >>
    /\ probe_low' = FALSE
    /\ ret' = None
    /\ UNCHANGED <<call, out, servers, env, disk, now, run, ticks, prev_ret, prev_now>>

\* the probe's answer arrives
ProbeResponse ==
    /\ pc = "probe"
    /\ \E outcome \in ProbeAnswers :
       \E core_remaining \in ProbeRemainingFor(outcome) :
          LET p == ProbeResult(outcome, core_remaining, rate_remaining, exhausted)
              hdr == outcome.header
          IN  /\ rate_remaining' = p.rate_remaining
              /\ exhausted' = p.exhausted
              /\ probe_low' =
                    \/ /\ ~outcome.error /\ ~IsNone(hdr) /\ IsIntLiteral(Val(hdr))
                       /\ IntOf(Val(hdr)) < GITHUB_RATE_LIMIT_BUFFER
                    \/ /\ ~outcome.error /\ outcome.status = 200
                       /\ outcome.shape = "object"
                       /\ ~IsNone(core_remaining)
                       /\ Val(core_remaining) < GITHUB_RATE_LIMIT_BUFFER
              \* probe.json() or the .get on its value raises, and nothing in
              \* run or enrich catches it
              /\ pc' = IF ProbeRaises(outcome) THEN "raised" ELSE "loop"
    /\ sem' = sem + 1
    /\ UNCHANGED <<call, out, servers, env, disk, now, run, ticks, cache, cache0, work, i, results,
                   waitq, sub, sent, waves, ret, prev_ret, prev_now>>

\* the top of `for i in range(0, len(work), batch_size)`: leave the loop,
\* break on exhaustion, or create the batch's tasks and await them (the
\* task objects of the batch before, all finished, are dropped)
\* a loop without the `if self._exhausted: break` at its top
LoopStep_NoBreak ==
    /\ pc = "loop"
    /\ IF i >= Len(work)
       THEN /\ pc' = "merge"
            /\ UNCHANGED <<sem, waitq, sub, sent, waves>>
       ELSE LET s == StartTasks(TasksOf(Batch),
                                [sub |-> [t \in TaskIds |-> IdleTask],
                                 sem |-> sem, waitq |-> waitq, sent |-> sent], exhausted)
            IN  /\ pc' = "gather"
                /\ sub' = s.sub
                /\ sem' = s.sem
                /\ waitq' = s.waitq
                /\ sent' = s.sent
                /\ waves' = Append(waves, [j \in 1..Len(Batch) |-> Batch[j].name])
    /\ UNCHANGED <<call, out, servers, env, disk, now, run, ticks, cache, cache0, work, i, results,
                   rate_remaining, exhausted, probe_low, ret, prev_ret, prev_now>>

LoopStep ==
    /\ pc = "loop"
    /\ IF i >= Len(work) \/ exhausted
       THEN /\ pc' = "merge"
            /\ UNCHANGED <<sem, waitq, sub, sent, waves>>
       ELSE LET s == StartTasks(TasksOf(Batch),
                                [sub |-> [t \in TaskIds |-> IdleTask],
                                 sem |-> sem, waitq |-> waitq, sent |-> sent], exhausted)
            IN  /\ pc' = "gather"
                /\ sub' = s.sub
                /\ sem' = s.sem
                /\ waitq' = s.waitq
                /\ sent' = s.sent
                /\ waves' = Append(waves, [j \in 1..Len(Batch) |-> Batch[j].name])
    /\ UNCHANGED <<call, out, servers, env, disk, now, run, ticks, cache, cache0, work, i, results,
                   rate_remaining, exhausted, probe_low, ret, prev_ret, prev_now>>

\* tasks run only while the engine's coroutine is suspended or has returned
TasksMayRun == pc \in {"gather", "returned"}

\* the answer to the request of task t arrives: _get's tail, the fetcher's
\* tail, and the slot passes on; an exception of a worker that run still
\* awaits goes through both gathers, run and enrich to the caller
SubResponse(t) ==
    /\ TasksMayRun
    /\ sub[t].st = "sent"
    /\ \E outcome \in AnswersTo(t) :
          LET g == GetResult(outcome, rate_remaining, exhausted)
              f == Fetch(t[2], sub[t].reqs, g.resp)
              after == [sub EXCEPT ![t].st = f.next, ![t].res = f.res]
              s == Release([sub |-> after, sem |-> sem, waitq |-> waitq, sent |-> sent])
          IN  /\ rate_remaining' = g.rate_remaining
              /\ exhausted' = g.exhausted
              /\ sub' = s.sub
              /\ sem' = s.sem
              /\ waitq' = s.waitq
              /\ sent' = s.sent
              /\ pc' = IF pc = "gather" /\ WorkerFails(after, t[1]) THEN "raised" ELSE pc
    /\ UNCHANGED <<call, out, servers, env, disk, now, run, ticks, cache, cache0, work, i,
                   results, waves, probe_low, ret, prev_ret, prev_now>>

\* asyncio.sleep(2) of _fetch_participation ends: the retry's _get starts
SleepDone(t) ==
    /\ TasksMayRun
    /\ sub[t].st = "sleep"
    /\ LET s == GetStart(t, [sub |-> sub, sem |-> sem, waitq |-> waitq, sent |-> sent], exhausted)
       IN  /\ sub' = s.sub
           /\ sem' = s.sem
           /\ waitq' = s.waitq
           /\ sent' = s.sent
    /\ UNCHANGED <<call, out, servers, env, disk, now, run, ticks, pc, cache, cache0, work, i,
                   results, rate_remaining, exhausted, waves, probe_low,
                   ret, prev_ret, prev_now>>

\* a gather that returns as soon as one worker has returned
BatchDone_Any == \E name \in BatchNames : WorkerFinished(name)

\* whether run's gather over the batch's workers may return
BatchDone == \A name \in BatchNames : WorkerFinished(name)

\* the batch's gather returns: keep the non-empty payloads, step the index
BatchEnd ==
    /\ pc = "gather"
    /\ BatchDone
    /\ results' = [name \in {n \in BatchNames : DOMAIN WorkerData(n) # {}} |->
                      WorkerData(name)] @@ results
    /\ i' = i + GITHUB_CONCURRENT_REQUESTS
    /\ pc' = "loop"
    /\ UNCHANGED <<call, out, servers, env, disk, now, run, ticks, cache, cache0, work,
                   rate_remaining, exhausted, sem, waitq, sub, sent, waves, probe_low,
                   ret, prev_ret, prev_now>>

\* run has returned to enrich: merge, save, strip, return.  On a cache
\* that is a list, cache[name] = ... raises TypeError, or with nothing fresh
\* the list is saved as it is and cache.items() raises AttributeError; on
\* an entry that is not an object, entry.items() raises after the save
Finish ==
    /\ pc = "merge"
    /\ IF ~IsJsonObject(cache)
       THEN /\ pc' = "raised"
            /\ disk' = IF results = EmptyDict THEN SaveCache(cache) ELSE disk
            /\ UNCHANGED <<cache, ret>>
       ELSE LET merged == Merge(cache, results, now)
            IN  /\ cache' = merged
                /\ disk' = SaveCache(merged)
                /\ IF \E name \in DOMAIN merged : ~IsJsonObject(merged[name])
                   THEN pc' = "raised" /\ ret' = ret
                   ELSE pc' = "returned" /\ ret' = Some(StripInternal(merged))
    /\ UNCHANGED <<call, out, servers, env, now, run, ticks, cache0, work, i, results,
                   rate_remaining, exhausted, sem, waitq, sub, sent, waves, probe_low,
                   prev_ret, prev_now>>

\* the caller calls enrich again, on the same servers
NextRun ==
    /\ pc = "returned"
    /\ run < env.runs
    /\ run' = run + 1
    /\ pc' = "idle"
    /\ prev_ret' = ret
    /\ prev_now' = now
    /\ UNCHANGED <<call, out, servers, env, disk, now, ticks, cache, cache0, work, i, results,
                   rate_remaining, exhausted, sem, waitq, sub, sent, waves, probe_low, ret>>

\* time passes between two calls of enrich
Tick ==
    /\ pc = "idle"
    /\ run > 1
    /\ ticks < MaxTicks
    /\ \E d \in env.tick_days : now' = now + d * SecondsPerDay
    /\ ticks' = ticks + 1
    /\ UNCHANGED <<call, out, servers, env, disk, run, pc, cache, cache0, work, i, results,
                   rate_remaining, exhausted, sem, waitq, sub, sent, waves, probe_low,
                   ret, prev_ret, prev_now>>

(***************************************************************************)
(* Specifications.                                                         *)
(***************************************************************************)
StartTime == 20 * SecondsPerDay
Days(d) == d * SecondsPerDay

Header(chars) == Some(chars)
H99 == Header(<<"9", "9">>)
H100 == Header(<<"1", "0", "0">>)
H101 == Header(<<"1", "0", "1">>)
HBad == Header(<<"n", "a">>)

GitHubServers(n) ==
    [j \in 1..n |-> [name |-> ServerNames[j],
                     repo_url |-> Some(GitHubUrl("org", ServerNames[j]))]]

\* a cache entry of an earlier run: an older payload and its timestamp
OldEntry(stars, cached_at) ==
    (CachedAtKey :> cached_at) @@ ("github_stars" :> Some(stars))
       @@ [k \in ParticipationFields |-> None]

\* the engine before enrich is first called
EngineIdle(srvs, e, file) ==
    /\ servers = srvs
    /\ env = e
    /\ disk = file
    /\ now = StartTime
    /\ run = 1
    /\ ticks = 0
    /\ pc = "idle"
    /\ cache = EmptyDict
    /\ cache0 = EmptyDict
    /\ work = << >>
    /\ i = 0
    /\ results = EmptyDict
    /\ rate_remaining = None
    /\ exhausted = FALSE
    /\ sem = GITHUB_CONCURRENT_REQUESTS
    /\ waitq = << >>
    /\ sub = [t \in NamesOf(srvs) \X KindSet |-> IdleTask]
    /\ sent = 0
    /\ waves = << >>
    /\ probe_low = FALSE
    /\ ret = None
    /\ prev_ret = None
    /\ prev_now = StartTime

\* the state before enrich is first called
Idle(srvs, e, file) ==
    /\ call = NoCall
    /\ out = << >>
    /\ EngineIdle(srvs, e, file)

\* one run against a provider that may answer with any status and header,
\* its 200 responses well-formed
FullEnv ==
    [statuses |-> {200, 202, 403, 500}, headers |-> {None, H99, H100},
     shapes |-> {"object"},
     errors |-> TRUE, probe_remaining |-> {None, Some(99), Some(100)},
     runs |-> 1, tick_days |-> {},
     quota0 |-> None, answers |-> None]

\* the state before a function outside the engine is called
BeforeCall(c) ==
    /\ call = c
    /\ out = << >>
    /\ EngineIdle(<< >>, FullEnv, None)

SeedFile ==
    Some(DumpJson(("a" :> OldEntry(1, Some(StartTime - Days(8))))
                   @@ ("z" :> OldEntry(3, Some(StartTime - Days(1))))))

Init == Idle(GitHubServers(NumServers), FullEnv, SeedFile)

Next ==
    \/ EnrichStart
    \/ ProbeResponse
    \/ LoopStep
    \/ \E t \in TaskIds : SubResponse(t)
    \/ \E t \in TaskIds : SleepDone(t)
    \/ BatchEnd
    \/ Finish

Spec == Init /\ [][Next]_vars

(***************************************************************************)
(* Properties of one run (specification Spec).                             *)
(***************************************************************************)
\* requests issued and not yet completed: the probe and the sub-fetches
InFlight ==
    (IF pc = "probe" THEN 1 ELSE 0) + Cardinality({t \in TaskIds : sub[t].st = "sent"})

\* C1: within a run (from the call of enrich to its return and after, until
\* the next call) the exhausted flag, once true, is never set back to false
C1_ExhaustedMonotonic == [][(exhausted /\ pc # "idle") => exhausted']_vars

\* C1's case: the tracker is exhausted and a later response has reported a
\* remaining value at the buffer again
C1_Witness == exhausted /\ rate_remaining = Some(GITHUB_RATE_LIMIT_BUFFER)

\* C2: no request is issued at a moment when the tracker is exhausted
C2_NoRequestWhenExhausted == [][(sent' > sent) => ~exhausted']_vars

\* C3: at every instant at most GITHUB_CONCURRENT_REQUESTS requests are
\* issued and not yet completed
C3_InFlightBounded == InFlight <= GITHUB_CONCURRENT_REQUESTS

\* C3's case: every slot is in use while further sub-fetches queue
C3_Witness == InFlight = GITHUB_CONCURRENT_REQUESTS /\ waitq # << >>

\* the payloads of a cache: every entry without its capture timestamp
PayloadsOf(c) ==
    [name \in DOMAIN c |-> [k \in DOMAIN c[name] \ {CachedAtKey} |-> c[name][k]]]

\* C5: when the probe reports a remaining quota under the buffer, no batch
\* runs, the probe is the run's only request, nothing fresh is produced and
\* enrich returns the payloads of the cache it loaded
C5_ProbeExhaustedHalts ==
    probe_low =>
        /\ waves = << >>
        /\ sent = 1
        /\ results = EmptyDict
        /\ pc = "returned" => ret = Some(PayloadsOf(cache0))

\* C5's case: such a run has returned, with a cache that was not empty
C5_Witness == probe_low /\ pc = "returned" /\ DOMAIN cache0 # {}

\* the workers of the batch that has just been gathered
LastBatchNames ==
    IF i = 0 THEN {}
    ELSE LET b == BatchAt(work, i - GITHUB_CONCURRENT_REQUESTS)
         IN  {b[j].name : j \in 1..Len(b)}

Succeeded(t) == sub[t].st = "done" /\ ~IsNone(sub[t].res)
\* the sub-fetch got a transport failure or a response that was not a 200
Failed(t) ==
    \/ sub[t].st = "done" /\ IsNone(sub[t].res)
    \/ sub[t].reqs = 2
    \/ sub[t].st \in {"sleep", "raised"}
FieldsOf(kind) ==
    CASE kind = "meta" -> MetaFields
      [] kind = "community" -> CommunityFields
      [] kind = "participation" -> ParticipationFields
\* the payload fields derived from the result of the finished sub-fetch t
DerivedData(t) ==
    CASE t[2] = "meta" -> MetaData(WorkItem(t[1]).owner, sub[t].res)
      [] t[2] = "community" -> CommunityData(sub[t].res)
      [] t[2] = "participation" -> ParticipationData(sub[t].res)
Holds(payloads, t) ==
    /\ t[1] \in DOMAIN payloads
    /\ \A k \in DOMAIN DerivedData(t) :
          k \in DOMAIN payloads[t[1]] /\ payloads[t[1]][k] = DerivedData(t)[k]

\* C9: a worker one of whose sub-fetches failed still hands run a payload
\* with the fields of every sub-fetch that succeeded and without the fields
\* of a failed metadata or community sub-fetch
C9_PartialFailureIsolated ==
    pc = "loop" =>
        \A name \in LastBatchNames :
            (\E k \in KindSet : Failed(<<name, k>>)) =>
                \A k \in KindSet :
                    /\ Succeeded(<<name, k>>) => Holds(results, <<name, k>>)
                    /\ (k # "participation" /\ ~Succeeded(<<name, k>>)) =>
                          (name \in DOMAIN results =>
                              FieldsOf(k) \cap DOMAIN results[name] = {})

\* C10: when enrich returns, the fields of every sub-fetch that got a 200
\* are in the returned mapping and in the saved cache
C10_CollectedDataPreserved ==
    [][(pc = "merge" /\ pc' = "returned") =>
          \A t \in TaskIds :
              Succeeded(t) => Holds(Val(ret'), t) /\ Holds(LoadCache(disk'), t)]_vars

\* the worker of `name` has returned and none of its sub-fetches got data
NoData(name) ==
    WorkerFinished(name) /\ \A k \in KindSet : ~Succeeded(<<name, k>>)

\* C11: a server whose worker obtained no data is not in the fresh results,
\* and the merge leaves its cache entry as it was loaded (absent if absent)
C11_NoDataNotCached ==
    [][(pc = "merge" /\ pc' = "returned") =>
          \A name \in LastBatchNames :
              NoData(name) =>
                  /\ name \notin DOMAIN results
                  /\ name \in DOMAIN cache0 => cache'[name] = cache0[name]
                  /\ name \notin DOMAIN cache0 => name \notin DOMAIN cache']_vars

(***************************************************************************)
(* The batch waves (specification SpecWaves): work lists of 1 to           *)
(* WaveServers servers, none of them cached, against a provider that       *)
(* answers every request with a 200 and may report a low quota.            *)
(***************************************************************************)
WavesEnv ==
    [statuses |-> {200}, headers |-> {None, H99}, shapes |-> {"object"},
     errors |-> FALSE, probe_remaining |-> {None}, runs |-> 1, tick_days |-> {},
     quota0 |-> None, answers |-> None]

InitWaves == \E n \in 1..WaveServers : Idle(GitHubServers(n), WavesEnv, None)

NextWaves ==
    \/ EnrichStart
    \/ ProbeResponse
    \/ LoopStep
    \/ \E t \in TaskIds : SubResponse(t)
    \/ BatchEnd
    \/ Finish

SpecWaves == InitWaves /\ [][NextWaves]_vars

CeilDiv(n, k) == (n + k - 1) \div k

\* the work list cut into ceil(n/K) consecutive slices, all of size K but
\* the last, which has the rest
ExpectedWaves(wk) ==
    LET K == GITHUB_CONCURRENT_REQUESTS
        n == Len(wk)
    IN  [w \in 1..CeilDiv(n, K) |->
            [j \in 1..(IF w * K <= n THEN K ELSE n - (w - 1) * K) |->
                wk[(w - 1) * K + j].name]]

\* C4: a run whose tracker never became exhausted has dispatched exactly
\* the ceil(n/K) consecutive slices of the work list, and a wave is
\* dispatched only when every worker of the wave before has returned
C4_SequentialWaves ==
    [][/\ (pc' = "returned" /\ ~exhausted') => waves' = ExpectedWaves(work')
       /\ (Len(waves') > Len(waves) /\ Len(waves) > 0) =>
              \A j \in 1..Len(waves[Len(waves)]) :
                  WorkerFinished(waves[Len(waves)][j])]_vars

\* C4's case: five servers at two per wave went out as waves of 2, 2 and 1
C4_Witness ==
    /\ pc = "returned" /\ ~exhausted
    /\ Len(work) = 5
    /\ Len(waves) = 3 /\ Len(waves[1]) = 2 /\ Len(waves[2]) = 2 /\ Len(waves[3]) = 1

(***************************************************************************)
(* Repeated runs (specification SpecRuns): enrich is called up to MaxRuns  *)
(* times on the same servers, two of which have no GitHub repository; the  *)
(* clock may advance between two calls.                                    *)
(***************************************************************************)
Unresolvable ==
    <<[name |-> "y", repo_url |-> None],
      [name |-> "x",
       repo_url |-> Some([scheme |-> "https", host |-> "gitlab.com",
                          segs |-> <<"org", "x">>, dotted |-> FALSE])]>>

RunsEnv ==
    [statuses |-> {200}, headers |-> {None, H99}, shapes |-> {"object"},
     errors |-> FALSE, probe_remaining |-> {None, Some(99)}, runs |-> MaxRuns,
     tick_days |-> {1, 8}, quota0 |-> None, answers |-> None]

InitRuns == Idle(GitHubServers(NumServers) \o Unresolvable, RunsEnv, None)

NextRuns ==
    \/ EnrichStart
    \/ ProbeResponse
    \/ LoopStep
    \/ \E t \in TaskIds : SubResponse(t)
    \/ BatchEnd
    \/ Finish
    \/ NextRun
    \/ Tick

SpecRuns == InitRuns /\ [][NextRuns]_vars

\* the servers whose repo_url names a GitHub repository
Resolvable(srvs) ==
    {srvs[j].name : j \in {k \in 1..Len(srvs) :
        /\ ~IsNone(srvs[k].repo_url)
        /\ Val(srvs[k].repo_url).host = "github.com"}}

\* the entry has a capture timestamp no older than the maximum age at time t
FreshAt(entry, t) ==
    /\ CachedAtKey \in DOMAIN entry
    /\ ~IsNone(entry[CachedAtKey])
    /\ t - Val(entry[CachedAtKey]) <= GITHUB_CACHE_MAX_AGE_DAYS * SecondsPerDay

\* the run before left a fresh entry for every resolvable server and no
\* time has passed since it returned
FullyFreshRerun ==
    /\ run > 1
    /\ now = prev_now
    /\ \A name \in Resolvable(servers) :
          name \in DOMAIN cache0 /\ FreshAt(cache0[name], now)

\* C6: such a run sends no request, not even the probe, and returns the
\* mapping the run before returned
C6_SecondRunIdempotent ==
    (FullyFreshRerun /\ pc = "returned") => (sent = 0 /\ ret = prev_ret)

\* C6's case: such a second run has returned, with entries in its mapping
C6_Witness ==
    /\ FullyFreshRerun /\ pc = "returned" /\ run = 2
    /\ DOMAIN Val(ret) = Resolvable(servers)

(***************************************************************************)
(* The merge of enrich (specification SpecMerge): enrich at the return of  *)
(* run, for every cache C and every fresh mapping F over the servers.      *)
(***************************************************************************)
\* the state of enrich when run has returned F and the cache loaded was C
AtMerge(srvs, C, F) ==
    /\ call = NoCall
    /\ out = << >>
    /\ servers = srvs
    /\ env = FullEnv
    /\ disk = SaveCache(C)
    /\ now = StartTime
    /\ run = 1
    /\ ticks = 0
    /\ pc = "merge"
    /\ cache = C
    /\ cache0 = C
    /\ work = << >>
    /\ i = 0
    /\ results = F
    /\ rate_remaining = None
    /\ exhausted = FALSE
    /\ sem = GITHUB_CONCURRENT_REQUESTS
    /\ waitq = << >>
    /\ sub = [t \in NamesOf(srvs) \X KindSet |-> IdleTask]
    /\ sent = 0
    /\ waves = << >>
    /\ probe_low = FALSE
    /\ ret = None
    /\ prev_ret = None
    /\ prev_now = StartTime

\* the mappings from some of the names to the values
PartialMaps(names, values) == UNION {[s -> values] : s \in SUBSET names}

\* cache entries: one with a timestamp, one whose timestamp is null
CacheEntries == {OldEntry(1, Some(StartTime - Days(8))), OldEntry(2, None)}

\* payloads of a worker: every sub-fetch succeeded, every sub-fetch failed
FreshPayloads ==
    {AssembleData("org", Some(MetaJson), Some(CommunityJson), Some(ParticipationJson)),
     AssembleData("org", None, None, None)}

InitMerge ==
    \E C \in PartialMaps(NamesOf(GitHubServers(NumServers)), CacheEntries),
       F \in PartialMaps(NamesOf(GitHubServers(NumServers)), FreshPayloads) :
        AtMerge(GitHubServers(NumServers), C, F)

NextMerge == Finish

SpecMerge == InitMerge /\ [][NextMerge]_vars

\* C7: the merged cache has exactly the keys of the loaded cache and of the
\* fresh mapping; a fresh key carries the fresh payload's fields, any other
\* key its entry unchanged; the saved file has lost no entry
C7_MergeCorrect ==
    pc = "returned" =>
        /\ DOMAIN cache = DOMAIN cache0 \cup DOMAIN results
        /\ \A name \in DOMAIN results :
              \A k \in DOMAIN results[name] :
                  k \in DOMAIN cache[name] /\ cache[name][k] = results[name][k]
        /\ \A name \in DOMAIN cache0 \ DOMAIN results : cache[name] = cache0[name]
        /\ DOMAIN cache0 \subseteq DOMAIN LoadCache(disk)

\* C7's case: a merge with a key that is overwritten and a key that passes
\* through
C7_Witness ==
    /\ pc = "returned"
    /\ DOMAIN cache0 \cap DOMAIN results # {}
    /\ DOMAIN cache0 \ DOMAIN results # {}

(***************************************************************************)
(* Staleness (specification SpecStale): the work list enrich builds from   *)
(* cache files whose entries have every age around the maximum age.        *)
(***************************************************************************)
\* ages in seconds of the entries that have a timestamp
Ages == {0, Days(6), Days(7) - 1, Days(7), Days(7) + 1, Days(8)}

\* an entry with the timestamp of each age, one with a null timestamp and
\* one without the field
AgedEntries ==
    {OldEntry(1, Some(StartTime - age)) : age \in Ages}
        \cup {OldEntry(1, None), "github_stars" :> Some(1)}

InitStale ==
    \E C \in PartialMaps(NamesOf(GitHubServers(NumServers)), AgedEntries) :
        Idle(GitHubServers(NumServers), FullEnv, SaveCache(C))

NextStale == EnrichStart

SpecStale == InitStale /\ [][NextStale]_vars

InWork(name) == \E j \in 1..Len(work) : work[j].name = name
CapturedAt(name) == Get(cache0[name], CachedAtKey)
CapturedDaysAgo(name, d) ==
    name \in DOMAIN cache0 /\ CapturedAt(name) = Some(now - d * SecondsPerDay)

\* C8: a cached server is put in the work list exactly when its entry has
\* no capture timestamp or is older than the maximum age; an entry of 8
\* days is stale, one of 6 days and one of exactly 7 days are not
C8_StaleExactly ==
    pc # "idle" =>
        \A name \in NamesOf(servers) \cap DOMAIN cache0 :
            /\ InWork(name) <=>
                  \/ IsNone(CapturedAt(name))
                  \/ now - Val(CapturedAt(name)) > GITHUB_CACHE_MAX_AGE_DAYS * SecondsPerDay
            /\ CapturedDaysAgo(name, 8) => InWork(name)
            /\ CapturedDaysAgo(name, 6) => ~InWork(name)
            /\ CapturedDaysAgo(name, 7) => ~InWork(name)

\* C8's case: an entry of exactly 7 days was skipped and one of 8 days was
\* put in the work list
C8_Witness ==
    /\ pc # "idle"
    /\ \E name \in NamesOf(servers) : CapturedDaysAgo(name, 7) /\ ~InWork(name)
    /\ \E name \in NamesOf(servers) : CapturedDaysAgo(name, 8) /\ InWork(name)

(***************************************************************************)
(* Faults of the provider (specification SpecFaults): one run against a    *)
(* provider whose 200 responses may carry a body that is not the JSON      *)
(* object the engine reads, with and without a cache file.                 *)
(***************************************************************************)
FaultsEnv ==
    [statuses |-> {200, 500}, headers |-> {None, H99},
     shapes |-> {"object", "array", "text"},
     errors |-> TRUE, probe_remaining |-> {None, Some(99)},
     runs |-> 1, tick_days |-> {},
     quota0 |-> None, answers |-> None]

InitFaults ==
    \E file \in {None, SeedFile} : Idle(GitHubServers(NumServers), FaultsEnv, file)

NextFaults ==
    \/ EnrichStart
    \/ ProbeResponse
    \/ LoopStep
    \/ \E t \in TaskIds : SubResponse(t)
    \/ BatchEnd
    \/ Finish

SpecFaults == InitFaults /\ [][NextFaults]_vars

\* C12: whatever the provider answers, enrich never raises an exception to
\* its caller
C12_NeverRaises == pc # "raised"

(***************************************************************************)
(* Cache files (specification SpecFiles): one run that starts from a cache *)
(* file in each state, against a provider that answers every request with  *)
(* a 200.                                                                  *)
(***************************************************************************)
FilesEnv ==
    [statuses |-> {200}, headers |-> {None, H99}, shapes |-> {"object"},
     errors |-> FALSE, probe_remaining |-> {None, Some(99)},
     runs |-> 1, tick_days |-> {},
     quota0 |-> None, answers |-> None]

\* well-formed, a JSON object with an entry that is an array, or one with an
\* entry whose capture timestamp is a string; for a listed server ("a") or
\* for one that is not listed ("z")
ObjectFiles ==
    {Some(DumpJson(name :> entry)) :
        name \in {"a", "z"},
        entry \in {OldEntry(1, Some(StartTime - Days(1))), ArrayJson,
                   OldEntry(1, JsonString("yesterday"))}}

CacheFiles ==
    {None, OtherFile("unreadable"), OtherFile("invalid"), OtherFile("array")}
        \cup ObjectFiles

InitFiles ==
    \E file \in CacheFiles : Idle(GitHubServers(NumServers), FilesEnv, file)

NextFiles ==
    \/ EnrichStart
    \/ ProbeResponse
    \/ LoopStep
    \/ \E t \in TaskIds : SubResponse(t)
    \/ BatchEnd
    \/ Finish

SpecFiles == InitFiles /\ [][NextFiles]_vars

\* the file is absent, unreadable, not JSON, or JSON of another shape than
\* an object of objects with numeric capture timestamps
Unusable(file) ==
    \/ IsNone(file)
    \/ IsOtherFile(file)
    \/ \E m \in Val(file) :
          ~IsJsonObject(m[2]) \/ IsJsonString(Get(m[2], CachedAtKey))

\* C13: a run that finds such a file builds the work list of an empty
\* cache and does not raise, at its start or later
C13_UnusableCacheIsColdStart ==
    [][Unusable(disk) =>
          /\ pc' # "raised"
          /\ pc = "idle" => work' = BuildWork(servers, EmptyDict, now)]_vars

(***************************************************************************)
(* The save seen from outside (specification SpecSave).  Finish takes      *)
(* _save_cache as one step, which is what the engine itself sees of it.    *)
(* Another process that reads the file, or the end of this process, may    *)
(* fall between the steps of `with open(path, "w") as f: json.dump(...)`:  *)
(* open truncates the file, json.dump hands the text to f.write piece by   *)
(* piece, the buffer of f goes to the file when it is full and when f is   *)
(* closed.  pc is "saving" from the open to the close and "stopped" when   *)
(* the process has ended in between.                                       *)
(***************************************************************************)
\* the merge of enrich, then open(path, "w")
SaveOpen ==
    /\ pc = "merge"
    /\ IsJsonObject(cache)
    /\ cache' = Merge(cache, results, now)
    /\ disk' = OtherFile("empty")
    /\ pc' = "saving"
    /\ UNCHANGED <<call, out, servers, env, now, run, ticks, cache0, work, i, results,
                   rate_remaining, exhausted, sem, waitq, sub, sent, waves, probe_low,
                   ret, prev_ret, prev_now>>

\* the buffer fills in the middle of json.dump and is written out
SaveFlush ==
    /\ pc = "saving"
    /\ disk = OtherFile("empty")
    /\ DOMAIN cache # {}
    /\ disk' = OtherFile("truncated")
    /\ UNCHANGED <<call, out, servers, env, now, run, ticks, pc, cache, cache0, work, i, results,
                   rate_remaining, exhausted, sem, waitq, sub, sent, waves, probe_low,
                   ret, prev_ret, prev_now>>

\* json.dump has returned and the file is closed; enrich strips and returns
SaveClose ==
    /\ pc = "saving"
    /\ disk' = SaveCache(cache)
    /\ ret' = Some(StripInternal(cache))
    /\ pc' = "returned"
    /\ UNCHANGED <<call, out, servers, env, now, run, ticks, cache, cache0, work, i, results,
                   rate_remaining, exhausted, sem, waitq, sub, sent, waves, probe_low,
                   prev_ret, prev_now>>

\* the process is killed during the save
Stop ==
    /\ pc = "saving"
    /\ pc' = "stopped"
    /\ UNCHANGED <<call, out, servers, env, disk, now, run, ticks, cache, cache0, work, i, results,
                   rate_remaining, exhausted, sem, waitq, sub, sent, waves, probe_low,
                   ret, prev_ret, prev_now>>

InitSave == InitMerge

NextSave == SaveOpen \/ SaveFlush \/ SaveClose \/ Stop

SpecSave == InitSave /\ [][NextSave]_vars

\* C14: at every instant the file holds the complete mapping of before the
\* save or the complete merged mapping
C14_SaveAtomic ==
    \/ disk = SaveCache(cache0)
    \/ disk = SaveCache(Merge(cache0, results, now))

(***************************************************************************)
(* The work list (specification SpecWork): enrich is called on servers     *)
(* with every kind of repo_url, each with no, a fresh or a stale cache     *)
(* entry.                                                                  *)
(***************************************************************************)
\* no URL, URLs the pattern matches, and URLs it does not: another host,
\* another scheme, a path of one or of three segments, a dot in the name
RepoUrls ==
    {None,
     Some(GitHubUrl("org", "repo")),
     Some([GitHubUrl("org", "repo") EXCEPT !.scheme = "http"]),
     Some([GitHubUrl("org", "repo") EXCEPT !.host = "gitlab.com"]),
     Some([GitHubUrl("org", "repo") EXCEPT !.scheme = "ssh"]),
     Some([GitHubUrl("org", "repo") EXCEPT !.segs = <<"org">>]),
     Some([GitHubUrl("org", "repo") EXCEPT !.segs = <<"org", "repo", "tree">>]),
     Some([GitHubUrl("org", "repo") EXCEPT !.dotted = TRUE])}

WorkEntries ==
    {OldEntry(1, Some(StartTime - Days(1))), OldEntry(1, Some(StartTime - Days(8)))}

InitWork ==
    \E urls \in [1..NumServers -> RepoUrls],
       C \in PartialMaps(NamesOf(GitHubServers(NumServers)), WorkEntries) :
        Idle([j \in 1..NumServers |-> [name |-> ServerNames[j], repo_url |-> urls[j]]],
             WavesEnv, SaveCache(C))

NextWork == EnrichStart \/ Finish

SpecWork == InitWork /\ [][NextWork]_vars

\* the URL has the shape http(s)://github.com/<owner>/<repo>
HasLocator(srv) ==
    /\ srv.repo_url # None
    /\ Val(srv.repo_url).scheme \in {"http", "https"}
    /\ Val(srv.repo_url).host = "github.com"
    /\ Len(Val(srv.repo_url).segs) = 2
    /\ ~Val(srv.repo_url).dotted

\* the server has no cache entry, or one older than the maximum age
NeedsFetch(srv) ==
    \/ srv.name \notin DOMAIN cache0
    \/ ~FreshAt(cache0[srv.name], now)

\* the servers to enqueue, in the order of the list
RECURSIVE Enqueued(_)
Enqueued(srvs) ==
    IF srvs = << >> THEN << >>
    ELSE (IF HasLocator(Head(srvs)) /\ NeedsFetch(Head(srvs))
          THEN <<Head(srvs).name>> ELSE << >>) \o Enqueued(Tail(srvs))

\* C15: the work list holds, in order, exactly the servers whose URL
\* resolves and whose cache entry is absent or stale; no URL makes enrich
\* raise; and a run with an empty work list sends no request
C15_WorkListExact ==
    pc # "idle" =>
        /\ [j \in 1..Len(work) |-> work[j].name] = Enqueued(servers)
        /\ pc # "raised"
        /\ work = << >> => sent = 0

\* C15's case: a run that skipped a server for its URL and one for its
\* fresh entry has returned without a request
C15_Witness ==
    /\ pc = "returned" /\ work = << >> /\ sent = 0
    /\ \E j \in 1..Len(servers) : servers[j].repo_url # None /\ ~HasLocator(servers[j])
    /\ \E j \in 1..Len(servers) : HasLocator(servers[j]) /\ ~NeedsFetch(servers[j])

(***************************************************************************)
(* _estimate_contributors (specification SpecEstimate): the function is    *)
(* called on series of up to MaxWeeks weeks.  A total series has n weeks   *)
(* in which others committed (2 commits, 1 of them by the owner), then s   *)
(* weeks of the owner alone (1 commit), then weeks without a commit.       *)
(***************************************************************************)
AllWeeks(len, n, s) ==
    [j \in 1..len |-> IF j <= n THEN 2 ELSE IF j <= n + s THEN 1 ELSE 0]
OwnerWeeks(len, n, s) ==
    [j \in 1..len |-> IF j <= n + s THEN 1 ELSE 0]

\* the owner series as long as the total series, empty, shorter, longer
OwnerSeries(len, n, s) ==
    {[kind |-> "same", weeks |-> OwnerWeeks(len, n, s)],
     [kind |-> "empty", weeks |-> << >>],
     [kind |-> "shorter", weeks |-> OwnerWeeks(len - 1, n, s)],
     [kind |-> "longer", weeks |-> OwnerWeeks(len + 1, n, s)]}

CallsFor(len, n, s) ==
    {[fn |-> "_estimate_contributors", n |-> n, s |-> s, owner |-> o.kind,
      all_weeks |-> AllWeeks(len, n, s), owner_weeks |-> o.weeks] :
        o \in OwnerSeries(len, n, s)}

InitEstimate ==
    \E len \in 1..MaxWeeks, n \in 0..MaxWeeks, s \in 0..MaxWeeks :
        /\ n + s <= len
        /\ \E c \in CallsFor(len, n, s) : BeforeCall(c)

Estimate ==
    /\ call.fn = "_estimate_contributors"
    /\ out = << >>
    /\ out' = <<EstimateContributors(call.all_weeks, call.owner_weeks)>>
    /\ UNCHANGED <<engine, call>>

NextEstimate == Estimate

SpecEstimate == InitEstimate /\ [][NextEstimate]_vars

\* what the estimate is to be for n weeks of others and s of the owner alone
ExpectedTier(n) ==
    CASE n = 0 -> 1
      [] n \in 1..7 -> 2
      [] n \in 8..14 -> 3
      [] n \in 15..24 -> 5
      [] n \in 25..39 -> 7
      [] n >= 40 -> 10

ExpectedEstimate(c) ==
    IF c.owner = "same"
    THEN IF c.n + c.s = 0 THEN None ELSE Some(ExpectedTier(c.n))
    ELSE IF c.n + c.s > 0 THEN Some(Max(1, (c.n + c.s) \div 10)) ELSE None

\* C16: with an owner series of the same length the estimate is the tier
\* of the number of weeks in which others committed (unknown when no week
\* is active); otherwise it is max(1, active weeks / 10), the quotient
\* rounded down, or unknown when no week is active
C16_EstimateTiers ==
    (call.fn = "_estimate_contributors" /\ out # << >>) =>
        out[1] = ExpectedEstimate(call)

\* C16's case: 40 weeks of others give 10, at the last boundary
C16_Witness ==
    /\ call.fn = "_estimate_contributors" /\ call.owner = "same" /\ call.n = 40
    /\ out = <<Some(10)>>

(***************************************************************************)
(* C17: one run against a provider that counts.  The provider starts with  *)
(* nothing or nearly nothing left, or with a quota around the buffer, so   *)
(* that the run crosses the buffer at every point of a batch.              *)
(***************************************************************************)
\* the most requests a batch can issue: three per worker and one retry
BatchRequests == (SubFetchesPerWorker + 1) * GITHUB_CONCURRENT_REQUESTS

QuotaStarts ==
    {0, 1, 2} \cup
        ((GITHUB_RATE_LIMIT_BUFFER - 1)..(GITHUB_RATE_LIMIT_BUFFER + BatchRequests + 1))

QuotaEnv(q) ==
    [statuses |-> {200, 202}, headers |-> {}, shapes |-> {"object"},
     errors |-> FALSE, probe_remaining |-> {}, runs |-> 1, tick_days |-> {},
     quota0 |-> Some(q), answers |-> None]

InitQuota == \E q \in QuotaStarts : Idle(GitHubServers(NumServers), QuotaEnv(q), None)

SpecQuota == InitQuota /\ [][Next]_vars

\* the provider's remaining quota when the n-th request of the run arrives
QuotaFound(n) == Val(env.quota0) - (n - 1)

SCORE_BANDS ==
    <<[low |-> 80, high |-> 100, label |-> "High Trust"],
      [low |-> 60, high |-> 79, label |-> "Moderate Trust"],
      [low |-> 40, high |-> 59, label |-> "Low Trust"],
      [low |-> 20, high |-> 39, label |-> "Very Low Trust"],
      [low |-> 0, high |-> 19, label |-> "Unknown/Suspicious"]>>

\* a lookup that leaves each band's lower edge out
RECURSIVE LabelIn_OpenLow(_, _)
LabelIn_OpenLow(bands, score) ==
    IF bands = << >> THEN "Unknown/Suspicious"
    ELSE IF Head(bands).low < score /\ score <= Head(bands).high THEN Head(bands).label
    ELSE LabelIn_OpenLow(Tail(bands), score)

GetTrustLabel_OpenLow(score) == LabelIn_OpenLow(SCORE_BANDS, score)

\* the loop of get_trust_label over the bands still to be tried
RECURSIVE LabelIn(_, _)
LabelIn(bands, score) ==
    IF bands = << >> THEN "Unknown/Suspicious"
    ELSE IF Head(bands).low <= score /\ score <= Head(bands).high THEN Head(bands).label
    ELSE LabelIn(Tail(bands), score)

GetTrustLabel(score) == LabelIn(SCORE_BANDS, score)

TrustScores == 0..100

InitLabel ==
    \E score \in TrustScores : BeforeCall([fn |-> "get_trust_label", score |-> score])

TrustLabel ==
    /\ call.fn = "get_trust_label"
    /\ out = << >>
    /\ out' = <<GetTrustLabel(call.score)>>
    /\ UNCHANGED <<engine, call>>

NextLabel == TrustLabel

SpecLabel == InitLabel /\ [][NextLabel]_vars

\* the label the bands of the claim give a score
ExpectedLabel(score) ==
    CASE score \in 80..100 -> "High Trust"
      [] score \in 60..79 -> "Moderate Trust"
      [] score \in 40..59 -> "Low Trust"
      [] score \in 20..39 -> "Very Low Trust"
      [] score \in 0..19 -> "Unknown/Suspicious"

BandsHolding(score) ==
    {j \in 1..Len(SCORE_BANDS) :
        SCORE_BANDS[j].low <= score /\ score <= SCORE_BANDS[j].high}

\* C18: get_trust_label maps every score from 0 to 100 to the label of the
\* one band that contains it, and exactly one band of SCORE_BANDS contains it
C18_LabelOfTheOneBand ==
    (call.fn = "get_trust_label" /\ out # << >>) =>
        /\ out = <<ExpectedLabel(call.score)>>
        /\ \E j \in 1..Len(SCORE_BANDS) :
              /\ BandsHolding(call.score) = {j}
              /\ out = <<SCORE_BANDS[j].label>>

\* a score on a band's lower edge has been labelled
C18_Witness ==
    /\ call.fn = "get_trust_label" /\ call.score = 80
    /\ out = <<"High Trust">>

(***************************************************************************)
(* Strings.  A str is the sequence of its characters; the operators below  *)
(* are the str methods the scorers and the flag detector call.             *)
(***************************************************************************)
UpperChars ==
    <<"A", "B", "C", "D", "E", "F", "G", "H", "I", "J", "K", "L", "M",
      "N", "O", "P", "Q", "R", "S", "T", "U", "V", "W", "X", "Y", "Z">>
LowerChars ==
    <<"a", "b", "c", "d", "e", "f", "g", "h", "i", "j", "k", "l", "m",
      "n", "o", "p", "q", "r", "s", "t", "u", "v", "w", "x", "y", "z">>

\* str.lower()
ToLower ==
    [c \in {UpperChars[j] : j \in 1..Len(UpperChars)} |->
        LowerChars[CHOOSE j \in 1..Len(UpperChars) : UpperChars[j] = c]]
LowerChar(c) == IF c \in DOMAIN ToLower THEN ToLower[c] ELSE c
Lower(s) == [j \in 1..Len(s) |-> LowerChar(s[j])]

\* str.strip()
IsSpace(c) == c \in {" ", "\t", "\n"}
RECURSIVE LStrip(_)
LStrip(s) == IF s # << >> /\ IsSpace(Head(s)) THEN LStrip(Tail(s)) ELSE s
RECURSIVE RStrip(_)
RStrip(s) ==
    IF s # << >> /\ IsSpace(s[Len(s)]) THEN RStrip(SubSeq(s, 1, Len(s) - 1)) ELSE s
Strip(s) == RStrip(LStrip(s))

\* s.startswith(p) and `p in s`
StartsWith(s, p) == Len(p) <= Len(s) /\ \A k \in 1..Len(p) : s[k] = p[k]
Contains(s, p) == \E j \in 0..(Len(s) - Len(p)) : \A k \in 1..Len(p) : s[j + k] = p[k]

\* any(f(p) for p in patterns) with f the test `p in s`, and with startswith
AnyIn(patterns, s) == \E j \in 1..Len(patterns) : Contains(s, patterns[j])
AnyPrefix(patterns, s) == \E j \in 1..Len(patterns) : StartsWith(s, patterns[j])

\* re.sub(r"[.\-_]", "", s.lower().strip())
IsSeparator(c) == c \in {".", "-", "_"}
KeepChar(c) == ~IsSeparator(c)
NormalizeForComparison(s) == SelectSeq(Strip(Lower(s)), KeepChar)

(***************************************************************************)
(* config: the pattern lists                                               *)
(***************************************************************************)
SENSITIVE_CREDENTIAL_PATTERNS ==
    <<
      <<"w", "a", "l", "l", "e", "t">>,
      <<"p", "r", "i", "v", "a", "t", "e", "_", "k", "e", "y">>,
      <<"s", "e", "c", "r", "e", "t", "_", "k", "e", "y">>,
      <<"m", "a", "s", "t", "e", "r", "_", "k", "e", "y">>,
      <<"d", "b", "_", "p", "a", "s", "s", "w", "o", "r", "d">>,
      <<"d", "a", "t", "a", "b", "a", "s", "e", "_", "p", "a", "s", "s",
        "w", "o", "r", "d">>,
      <<"d", "b", "_", "p", "a", "s", "s">>,
      <<"r", "o", "o", "t", "_", "p", "a", "s", "s", "w", "o", "r", "d">>,
      <<"a", "d", "m", "i", "n", "_", "p", "a", "s", "s", "w", "o", "r",
        "d">>,
      <<"s", "e", "e", "d", "_", "p", "h", "r", "a", "s", "e">>,
      <<"m", "n", "e", "m", "o", "n", "i", "c">>,
      <<"s", "s", "h", "_", "k", "e", "y">>,
      <<"s", "s", "l", "_", "c", "e", "r", "t">>
    >>

API_KEY_PATTERNS ==
    <<
      <<"a", "p", "i", "_", "k", "e", "y">>,
      <<"a", "p", "i", "_", "t", "o", "k", "e", "n">>,
      <<"a", "c", "c", "e", "s", "s", "_", "t", "o", "k", "e", "n">>,
      <<"a", "u", "t", "h", "_", "t", "o", "k", "e", "n">>,
      <<"b", "e", "a", "r", "e", "r">>,
      <<"s", "e", "c", "r", "e", "t">>,
      <<"t", "o", "k", "e", "n">>,
      <<"k", "e", "y">>,
      <<"p", "a", "s", "s", "w", "o", "r", "d">>,
      <<"c", "r", "e", "d", "e", "n", "t", "i", "a", "l">>
    >>

TEMPLATE_DESCRIPTIONS ==
    <<
      <<"a", " ", "m", "o", "d", "e", "l", " ", "c", "o", "n", "t", "e",
        "x", "t", " ", "p", "r", "o", "t", "o", "c", "o", "l", " ", "s",
        "e", "r", "v", "e", "r">>,
      <<"a", "n", " ", "m", "c", "p", " ", "s", "e", "r", "v", "e", "r">>,
      <<"m", "c", "p", " ", "s", "e", "r", "v", "e", "r", " ", "f", "o",
        "r">>,
      <<"a", " ", "m", "c", "p", " ", "s", "e", "r", "v", "e", "r">>,
      <<"m", "o", "d", "e", "l", " ", "c", "o", "n", "t", "e", "x", "t",
        " ", "p", "r", "o", "t", "o", "c", "o", "l", " ", "s", "e", "r",
        "v", "e", "r">>,
      <<"t", "h", "i", "s", " ", "i", "s", " ", "a", "n", " ", "m", "c",
        "p", " ", "s", "e", "r", "v", "e", "r">>,
      <<"t", "h", "i", "s", " ", "i", "s", " ", "a", " ", "m", "c", "p",
        " ", "s", "e", "r", "v", "e", "r">>,
      <<"m", "y", " ", "m", "c", "p", " ", "s", "e", "r", "v", "e", "r">>,
      <<"t", "e", "s", "t", " ", "m", "c", "p", " ", "s", "e", "r", "v",
        "e", "r">>,
      <<"e", "x", "a", "m", "p", "l", "e", " ", "m", "c", "p", " ", "s",
        "e", "r", "v", "e", "r">>,
      <<"s", "a", "m", "p", "l", "e", " ", "m", "c", "p", " ", "s", "e",
        "r", "v", "e", "r">>,
      <<"h", "e", "l", "l", "o", " ", "w", "o", "r", "l", "d", " ", "m",
        "c", "p", " ", "s", "e", "r", "v", "e", "r">>
    >>

STAGING_PATTERNS ==
    <<
      <<"t", "e", "s", "t", "-">>,
      <<"-", "t", "e", "s", "t">>,
      <<"s", "t", "a", "g", "i", "n", "g", "-">>,
      <<"-", "s", "t", "a", "g", "i", "n", "g">>,
      <<"d", "e", "v", "-">>,
      <<"-", "d", "e", "v">>,
      <<"e", "x", "a", "m", "p", "l", "e", "-">>,
      <<"-", "e", "x", "a", "m", "p", "l", "e">>,
      <<"d", "e", "m", "o", "-">>,
      <<"-", "d", "e", "m", "o">>,
      <<"s", "a", "m", "p", "l", "e", "-">>,
      <<"-", "s", "a", "m", "p", "l", "e">>,
      <<"t", "e", "m", "p", "-">>,
      <<"-", "t", "e", "m", "p">>,
      <<"t", "m", "p", "-">>,
      <<"-", "t", "m", "p">>
    >>

(***************************************************************************)
(* Numbers.  The scorers compute in floats; here a number is the exact     *)
(* fraction <<n, d>> in lowest terms with d > 0, and round is Python's     *)
(* round: to the nearest integer, a tie going to the even one.             *)
(***************************************************************************)
Abs(n) == IF n < 0 THEN -n ELSE n
RECURSIVE GCD(_, _)
GCD(a, b) == IF b = 0 THEN a ELSE GCD(b, a % b)

Frac(n, d) == LET g == GCD(Abs(n), d) IN <<n \div g, d \div g>>
Whole(n) == <<n, 1>>
FAdd(a, b) == Frac(a[1] * b[2] + b[1] * a[2], a[2] * b[2])
FSub(a, b) == Frac(a[1] * b[2] - b[1] * a[2], a[2] * b[2])
FMul(a, b) == Frac(a[1] * b[1], a[2] * b[2])
\* a / b for b > 0
FDiv(a, b) == Frac(a[1] * b[2], a[2] * b[1])
FLe(a, b) == a[1] * b[2] <= b[1] * a[2]
FLt(a, b) == a[1] * b[2] < b[1] * a[2]
FMin(a, b) == IF FLe(a, b) THEN a ELSE b
FMax(a, b) == IF FLe(b, a) THEN a ELSE b

Round(a) ==
    LET q == a[1] \div a[2]
        r == a[1] % a[2]
    IN  IF 2 * r < a[2] THEN q
        ELSE IF 2 * r > a[2] THEN q + 1
        ELSE IF q % 2 = 0 THEN q ELSE q + 1

(***************************************************************************)
(* config: points, thresholds and weights                                  *)
(***************************************************************************)
CATEGORY_WEIGHTS ==
    [provenance |-> Frac(30, 100), maintenance |-> Frac(25, 100),
     popularity |-> Frac(20, 100), permissions |-> Frac(25, 100)]
\* the iteration order of the dict
Categories == <<"provenance", "maintenance", "popularity", "permissions">>

PROVENANCE_POINTS ==
    [has_source_repo |-> 25, repo_not_archived |-> 10, has_license |-> 10,
     has_installable_package |-> 15, has_website_url |-> 5, has_icon |-> 5,
     namespace_matches_owner |-> 10, has_security_md |-> 10,
     has_code_of_conduct |-> 5, unique_description |-> 5]

POPULARITY_GITHUB_ONLY_POINTS ==
    [github_stars |-> 55, github_forks |-> 30, github_watchers |-> 15]

PUSH_RECENCY_MAX_DAYS == 365
PUSH_RECENCY_FULL_DAYS == 30

Tier(threshold, fraction) == [threshold |-> threshold, fraction |-> fraction]
CONTRIBUTOR_TIERS ==
    <<Tier(10, Frac(100, 100)), Tier(4, Frac(75, 100)), Tier(2, Frac(50, 100)),
      Tier(1, Frac(25, 100))>>
STARS_LOG_BRACKETS ==
    <<Tier(10000, Frac(10, 10)), Tier(1000, Frac(8, 10)), Tier(100, Frac(6, 10)),
      Tier(10, Frac(4, 10)), Tier(1, Frac(1, 10)), Tier(0, Frac(0, 10))>>
FORKS_LOG_BRACKETS ==
    <<Tier(1000, Frac(10, 10)), Tier(100, Frac(8, 10)), Tier(50, Frac(6, 10)),
      Tier(10, Frac(4, 10)), Tier(1, Frac(1, 10)), Tier(0, Frac(0, 10))>>
WATCHERS_LOG_BRACKETS ==
    <<Tier(100, Frac(10, 10)), Tier(50, Frac(8, 10)), Tier(20, Frac(6, 10)),
      Tier(5, Frac(4, 10)), Tier(1, Frac(1, 10)), Tier(0, Frac(0, 10))>>

TRANSPORT_RISK == ("stdio" :> 25) @@ ("sse" :> 10) @@ ("streamable-http" :> 10)
TRANSPORT_RISK_DEFAULT == 5
PACKAGE_TYPE_RISK == ("npm" :> 15) @@ ("pypi" :> 15) @@ ("oci" :> 10)
PACKAGE_TYPE_RISK_DEFAULT == 5

(***************************************************************************)
(* Values of a server entry and of an enrichment payload.  A payload is a  *)
(* dict as the engine returns it: each key absent or holding None or       *)
(* Some(v).  A timestamp string is [empty, iso]: the empty string, a text  *)
(* datetime.fromisoformat rejects (iso = None), or the ISO form of the     *)
(* instant iso = Some(t), t in seconds.                                    *)
(***************************************************************************)
EmptyText == [empty |-> TRUE, iso |-> None]
JunkText == [empty |-> FALSE, iso |-> None]
IsoText(t) == [empty |-> FALSE, iso |-> Some(t)]

\* bool(x) of an optional bool, of an optional str and of a list
TruthyBool(x) == ~IsNone(x) /\ Val(x)
TruthyStr(x) == ~IsNone(x) /\ Val(x) # << >>
\* `x or 0` of an optional number
OrZero(x) == IF IsNone(x) THEN 0 ELSE Val(x)
\* `x or ""` of an optional str
OrEmpty(x) == IF IsNone(x) THEN << >> ELSE Val(x)

\* _parse_iso
ParseIso(dt_str) ==
    IF IsNone(dt_str) \/ Val(dt_str).empty THEN None
    ELSE Val(dt_str).iso

\* _days_since at the time clock: max(delta.total_seconds() / 86400, 0)
DaysSince(dt_str, clock) ==
    LET dt == ParseIso(dt_str)
    IN  IF IsNone(dt) THEN None
        ELSE Some(FMax(Frac(clock - Val(dt), SecondsPerDay), Whole(0)))

\* _bracket_score
RECURSIVE BracketScore(_, _)
BracketScore(count, brackets) ==
    IF brackets = << >> THEN Whole(0)
    ELSE IF count >= Head(brackets).threshold THEN Head(brackets).fraction
    ELSE BracketScore(count, Tail(brackets))

(***************************************************************************)
(* The category scorers.  server is a ServerEntry record, github is None   *)
(* or Some(payload), clock is datetime.now.  Each operator gives the       *)
(* score of the (score, signals) pair the function returns; the signals,   *)
(* which no score reads, are not modelled.                                 *)
(***************************************************************************)
\* namespace_matches_owner
NamespaceMatches(server, github) ==
    /\ ~IsNone(github)
    /\ TruthyStr(Get(Val(github), "github_owner"))
    /\ LET norm_ns == NormalizeForComparison(server.namespace)
           norm_owner == NormalizeForComparison(Val(Get(Val(github), "github_owner")))
       IN  /\ norm_ns # << >>
           /\ norm_owner # << >>
           /\ (Contains(norm_ns, norm_owner) \/ Contains(norm_owner, norm_ns))

\* unique_description
UniqueDescription(server) ==
    LET desc == Strip(Lower(OrEmpty(server.description)))
    IN  desc # << >> /\ ~AnyPrefix(TEMPLATE_DESCRIPTIONS, desc)

\* the signals of score_provenance that are true
ProvenanceSignals(server, github) ==
    {k \in DOMAIN PROVENANCE_POINTS :
        CASE k = "has_source_repo" -> ~IsNone(server.repo_url)
          [] k = "repo_not_archived" ->
                ~IsNone(github) /\ ~TruthyBool(Get(Val(github), "github_archived"))
          [] k = "has_license" ->
                ~IsNone(github) /\ TruthyStr(Get(Val(github), "github_license"))
          [] k = "has_installable_package" -> server.has_packages
          [] k = "has_website_url" -> server.has_website
          [] k = "has_icon" -> server.has_icon
          [] k = "namespace_matches_owner" -> NamespaceMatches(server, github)
          [] k = "has_security_md" ->
                ~IsNone(github) /\ TruthyBool(Get(Val(github), "github_has_security_md"))
          [] k = "has_code_of_conduct" ->
                ~IsNone(github)
                    /\ TruthyBool(Get(Val(github), "github_has_code_of_conduct"))
          [] k = "unique_description" -> UniqueDescription(server)}

RECURSIVE SumPoints(_, _)
SumPoints(points, keys) ==
    IF keys = {} THEN 0
    ELSE LET k == CHOOSE x \in keys : TRUE
         IN  points[k] + SumPoints(points, keys \ {k})

ScoreProvenance(server, github) ==
    Min(SumPoints(PROVENANCE_POINTS, ProvenanceSignals(server, github)), 100)

\* a recency that is not cut off at PUSH_RECENCY_MAX_DAYS
RecencyFrac_NoFloor(push_days) ==
    IF IsNone(push_days) THEN Whole(0)
    ELSE IF FLe(Val(push_days), Whole(PUSH_RECENCY_FULL_DAYS)) THEN Whole(1)
    ELSE FSub(Whole(1),
              FDiv(FSub(Val(push_days), Whole(PUSH_RECENCY_FULL_DAYS)),
                   Whole(PUSH_RECENCY_MAX_DAYS - PUSH_RECENCY_FULL_DAYS)))

\* last_push_recency
RecencyFrac(push_days) ==
    IF IsNone(push_days) THEN Whole(0)
    ELSE IF FLe(Val(push_days), Whole(PUSH_RECENCY_FULL_DAYS)) THEN Whole(1)
    ELSE IF FLe(Whole(PUSH_RECENCY_MAX_DAYS), Val(push_days)) THEN Whole(0)
    ELSE FSub(Whole(1),
              FDiv(FSub(Val(push_days), Whole(PUSH_RECENCY_FULL_DAYS)),
                   Whole(PUSH_RECENCY_MAX_DAYS - PUSH_RECENCY_FULL_DAYS)))

\* active_commit_weeks
WeeksFrac(commit_weeks) ==
    IF ~IsNone(commit_weeks) /\ Val(commit_weeks) > 0
    THEN FMin(Frac(Val(commit_weeks), 52), Whole(1))
    ELSE Whole(0)

\* contributor_count: the first tier the count reaches
RECURSIVE TierFrac(_, _)
TierFrac(contributors, tiers) ==
    IF tiers = << >> THEN Whole(0)
    ELSE IF contributors >= Head(tiers).threshold THEN Head(tiers).fraction
    ELSE TierFrac(contributors, Tail(tiers))
ContribFrac(contributors) ==
    IF IsNone(contributors) THEN Whole(0)
    ELSE TierFrac(Val(contributors), CONTRIBUTOR_TIERS)

\* releases_past_year
ReleasePts(commit_weeks) ==
    IF IsNone(commit_weeks) THEN 0
    ELSE IF Val(commit_weeks) > 26 THEN 15
    ELSE IF Val(commit_weeks) > 13 THEN 10
    ELSE IF Val(commit_weeks) > 4 THEN 5
    ELSE 0

ScoreMaintenance(server, github, clock) ==
    LET age_days == IF IsNone(github) THEN None
                    ELSE DaysSince(Get(Val(github), "github_created_at"), clock)
        aged == ~IsNone(age_days) /\ FLt(Whole(90), Val(age_days))
        push_days == IF IsNone(github) THEN None
                     ELSE DaysSince(Get(Val(github), "github_pushed_at"), clock)
        commit_weeks == IF IsNone(github) THEN None
                        ELSE Get(Val(github), "github_commit_weeks_active")
        contributors == IF IsNone(github) THEN None
                        ELSE Get(Val(github), "github_contributors")
        p1 == IF aged THEN Whole(10) ELSE Whole(0)
        p2 == FAdd(p1, FMul(RecencyFrac(push_days), Whole(25)))
        p3 == FAdd(p2, FMul(WeeksFrac(commit_weeks), Whole(20)))
        p4 == FAdd(p3, FMul(ContribFrac(contributors), Whole(15)))
        p5 == FAdd(p4, Whole(5))
        points == FAdd(p5, Whole(ReleasePts(commit_weeks)))
    IN  Min(Round(points), 100)

ScorePopularity(server, github) ==
    IF IsNone(github) THEN 0
    ELSE LET pts == POPULARITY_GITHUB_ONLY_POINTS
             stars == OrZero(Get(Val(github), "github_stars"))
             forks == OrZero(Get(Val(github), "github_forks"))
             watchers == OrZero(Get(Val(github), "github_watchers"))
             total == FAdd(FAdd(FMul(BracketScore(stars, STARS_LOG_BRACKETS),
                                     Whole(pts.github_stars)),
                                FMul(BracketScore(forks, FORKS_LOG_BRACKETS),
                                     Whole(pts.github_forks))),
                           FMul(BracketScore(watchers, WATCHERS_LOG_BRACKETS),
                                Whole(pts.github_watchers)))
         IN  Min(Round(total), 100)

\* sum(1 for ev in env_vars if ev.get("is_secret"))
SecretCount(env_vars) == Cardinality({j \in 1..Len(env_vars) : env_vars[j].is_secret})

\* secret_score_map.get(secret_count, 0)
SecretScore(secret_count) ==
    CASE secret_count = 0 -> 40
      [] secret_count = 1 -> 30
      [] secret_count = 2 -> 20
      [] secret_count = 3 -> 10
      [] OTHER -> 0

\* max of a non-empty list of numbers
MaxOf(xs) == CHOOSE x \in {xs[j] : j \in 1..Len(xs)} : \A j \in 1..Len(xs) : xs[j] <= x
\* d.get(k, default)
GetOr(d, k, default) == IF k \in DOMAIN d THEN d[k] ELSE default
Elements(xs) == {xs[j] : j \in 1..Len(xs)}

TransportPts(transport_types) ==
    IF transport_types = << >> THEN TRANSPORT_RISK_DEFAULT
    ELSE IF "stdio" \in Elements(transport_types) /\ Len(transport_types) = 1
    THEN TRANSPORT_RISK["stdio"]
    ELSE IF "stdio" \in Elements(transport_types) THEN 15
    ELSE MaxOf([j \in 1..Len(transport_types) |->
                    GetOr(TRANSPORT_RISK, transport_types[j], TRANSPORT_RISK_DEFAULT)])

\* the loop over env_vars with cred_score so far; it breaks at the first
\* name with a sensitive pattern
RECURSIVE CredLoop(_, _)
CredLoop(env_vars, cred_score) ==
    IF env_vars = << >> THEN cred_score
    ELSE LET var_name == Lower(OrEmpty(Head(env_vars).name))
         IN  IF AnyIn(SENSITIVE_CREDENTIAL_PATTERNS, var_name) THEN Min(cred_score, 5)
             ELSE IF AnyIn(API_KEY_PATTERNS, var_name)
             THEN CredLoop(Tail(env_vars), Min(cred_score, 15))
             ELSE CredLoop(Tail(env_vars), cred_score)
CredScore(env_vars) == CredLoop(env_vars, 20)

PackagePts(package_types) ==
    IF package_types = << >> THEN PACKAGE_TYPE_RISK_DEFAULT
    ELSE MaxOf([j \in 1..Len(package_types) |->
                    GetOr(PACKAGE_TYPE_RISK, package_types[j], PACKAGE_TYPE_RISK_DEFAULT)])

ScorePermissions(server, github) ==
    Min(SecretScore(SecretCount(server.env_vars)) + TransportPts(server.transport_types)
            + CredScore(server.env_vars) + PackagePts(server.package_types),
        100)

(***************************************************************************)
(* calculate_scores                                                        *)
(***************************************************************************)
RECURSIVE WeightedSum(_, _)
WeightedSum(scores, cats) ==
    IF cats = << >> THEN Whole(0)
    ELSE FAdd(FMul(Whole(scores[Head(cats)]), CATEGORY_WEIGHTS[Head(cats)]),
              WeightedSum(scores, Tail(cats)))

CalculateScores(server, github, clock) ==
    LET scores == [provenance |-> ScoreProvenance(server, github),
                   maintenance |-> ScoreMaintenance(server, github, clock),
                   popularity |-> ScorePopularity(server, github),
                   permissions |-> ScorePermissions(server, github)]
        trust_score == Min(Round(WeightedSum(scores, Categories)), 100)
    IN  [trust_score |-> trust_score,
         trust_label |-> GetTrustLabel(trust_score),
         scores |-> scores]

(***************************************************************************)
(* C19: calculate_scores, called with server entries and payloads that     *)
(* take one category at a time through the values its scorer tells apart   *)
(* (at, below and above each threshold), the fields the other categories   *)
(* read being those of a poor or of a rich entry or payload.               *)
(***************************************************************************)
SecretVar(name) == [name |-> Some(name), is_secret |-> TRUE]
PlainVar(name) == [name |-> Some(name), is_secret |-> FALSE]
EnvKinds ==
    <<PlainVar(<<"P", "O", "R", "T">>), SecretVar(<<"O", "P", "E", "N", "A", "I", "_", "A", "P",
        "I", "_", "K", "E", "Y">>), SecretVar(<<"W", "a", "l", "l", "e", "t", "_", "S", "e", "e",
        "d">>),
      [name |-> None, is_secret |-> TRUE]>>

\* the lists of at most MaxEnvVars variables, grouped by kind
EnvLists ==
    {[j \in 1..Len(ks) |-> EnvKinds[ks[j]]] :
        ks \in {s \in UNION {[1..n -> 1..Len(EnvKinds)] : n \in 0..MaxEnvVars} :
                    \A j \in 1..(Len(s) - 1) : s[j] <= s[j + 1]}}

RichServer ==
    [name |-> <<"i", "o", ".", "g", "i", "t", "h", "u", "b", ".", "o", "r", "g", "/", "f", "i",
        "l", "e", "s">>, namespace |-> <<"i", "o", ".", "g", "i", "t", "h", "u", "b", ".", "o",
        "r", "g">>,
     server_id |-> <<"f", "i", "l", "e", "s">>, description |-> Some(<<"Q", "u", "e", "r", "y",
         " ", "w", "e", "a", "t", "h", "e", "r", " ", "d", "a", "t", "a">>),
     repo_url |-> Some(GitHubUrl("org", "files")),
     has_packages |-> TRUE, package_types |-> <<"npm">>,
     package_identifiers |-> <<"files">>, has_remotes |-> FALSE,
     transport_types |-> <<"stdio">>, env_vars |-> << >>,
     has_website |-> TRUE, has_icon |-> TRUE]

PoorServer ==
    [name |-> <<"t", "e", "s", "t", "-", "s", "e", "r", "v", "e", "r">>, namespace |-> << >>,
     server_id |-> <<"t", "e", "s", "t", "-", "s", "e", "r", "v", "e", "r">>,
         description |-> Some(<<" ", " ", "A", "n", " ", "M", "C", "P", " ", "S", "e", "r", "v",
         "e", "r", " ", "f", "o", "r", " ", "f", "i", "l", "e", "s", " ">>),
     repo_url |-> None,
     has_packages |-> FALSE, package_types |-> << >>,
     package_identifiers |-> << >>, has_remotes |-> TRUE,
     transport_types |-> <<"websocket">>,
     env_vars |-> [j \in 1..MaxEnvVars |-> SecretVar(<<"W", "a", "l", "l", "e", "t", "_", "S",
         "e", "e", "d">>)],
     has_website |-> FALSE, has_icon |-> FALSE]

DaysAgo(d) == Some(IsoText(StartTime - Days(d)))

RichPayload ==
    [github_stars |-> Some(10000), github_forks |-> Some(1000),
     github_watchers |-> Some(100), github_archived |-> Some(FALSE),
     github_license |-> Some(<<"M", "I", "T">>), github_created_at |-> DaysAgo(400),
     github_pushed_at |-> DaysAgo(1), github_owner |-> Some(<<"O", "r", "g">>),
     github_has_security_md |-> Some(TRUE), github_has_code_of_conduct |-> Some(TRUE),
     github_health_percentage |-> Some(100),
     github_commit_weeks_active |-> Some(MaxWeeks), github_contributors |-> Some(10)]

PoorPayload ==
    [github_stars |-> None, github_forks |-> None,
     github_watchers |-> None, github_archived |-> Some(TRUE),
     github_license |-> None, github_created_at |-> None,
     github_pushed_at |-> None, github_owner |-> Some(<<"a", "c", "m", "e">>),
     github_has_security_md |-> Some(FALSE), github_has_code_of_conduct |-> Some(FALSE),
     github_health_percentage |-> None,
     github_commit_weeks_active |-> None, github_contributors |-> None]

\* the payload the engine stores for a repository none of whose sub-fetches
\* succeeded
BlankPayload == [k \in ParticipationFields |-> None]

Servers2 == {PoorServer, RichServer}
Payloads2 == {PoorPayload, RichPayload}
Payloads3 == {None, Some(BlankPayload), Some(PoorPayload), Some(RichPayload)}

ScoreCall(server, github) ==
    [fn |-> "calculate_scores", server |-> server, github |-> github]

ProvenanceCalls ==
    \E base \in Payloads2,
       repo_url \in {None, Some(GitHubUrl("org", "files"))},
       has_packages \in BOOLEAN, has_website \in BOOLEAN, has_icon \in BOOLEAN,
       namespace \in {<< >>, <<"i", "o", ".", "g", "i", "t", "h", "u", "b", ".", "o", "r", "g">>,
           <<"c", "o", "m", ".", "a", "c", "m", "e">>},
       description \in {None, Some(<< >>), Some(<<" ", " ", "A", "n", " ", "M", "C", "P", " ",
           "S", "e", "r", "v", "e", "r", " ", "f", "o", "r", " ", "f", "i", "l", "e", "s", " ">>),
                        Some(<<"Q", "u", "e", "r", "y", " ", "w", "e", "a", "t", "h", "e", "r",
                            " ", "d", "a", "t", "a">>)},
       archived \in {None, Some(TRUE)},
       license \in {None, Some(<<"M", "I", "T">>)},
       owner \in {None, Some(<<"O", "r", "g">>), Some(<<"-">>)},
       security \in BOOLEAN, conduct \in BOOLEAN, enriched \in BOOLEAN :
        /\ ~enriched =>
              /\ base = PoorPayload /\ archived = None /\ license = None /\ owner = None
              /\ ~security /\ ~conduct
        /\ BeforeCall(ScoreCall(
              [RichServer EXCEPT !.repo_url = repo_url, !.has_packages = has_packages,
                             !.has_website = has_website, !.has_icon = has_icon,
                             !.namespace = namespace, !.description = description],
              IF ~enriched THEN None
              ELSE Some([base EXCEPT !.github_archived = archived,
                                     !.github_license = license,
                                     !.github_owner = owner,
                                     !.github_has_security_md = Some(security),
                                     !.github_has_code_of_conduct = Some(conduct)])))

MaintenanceCalls ==
    \E server \in Servers2, base \in Payloads2,
       created \in {None, Some(EmptyText), Some(JunkText), DaysAgo(90), DaysAgo(91),
                    DaysAgo(-3)},
       pushed \in {None, DaysAgo(0), DaysAgo(30), DaysAgo(31), DaysAgo(200),
                   DaysAgo(364), DaysAgo(365), DaysAgo(4000),
                   Some(IsoText(StartTime - Days(61) \div 2))},
       weeks \in {None, Some(0), Some(1), Some(4), Some(5), Some(13), Some(14),
                  Some(26), Some(27), Some(MaxWeeks), Some(MaxWeeks + 1)},
       contributors \in {None, Some(0), Some(1), Some(2), Some(3), Some(4), Some(9),
                         Some(10)} :
        BeforeCall(ScoreCall(server,
            Some([base EXCEPT !.github_created_at = created,
                              !.github_pushed_at = pushed,
                              !.github_commit_weeks_active = weeks,
                              !.github_contributors = contributors])))

PopularityCalls ==
    \E server \in Servers2, base \in Payloads2,
       stars \in {None, Some(0), Some(1), Some(9), Some(10), Some(100), Some(1000),
                  Some(10000)},
       forks \in {None, Some(0), Some(1), Some(10), Some(50), Some(100), Some(1000)},
       watchers \in {None, Some(0), Some(1), Some(5), Some(20), Some(50), Some(100)} :
        BeforeCall(ScoreCall(server,
            Some([base EXCEPT !.github_stars = stars, !.github_forks = forks,
                              !.github_watchers = watchers])))

PermissionsCalls ==
    \E server \in Servers2, github \in Payloads3, env_vars \in EnvLists,
       transport_types \in {<< >>, <<"stdio">>, <<"stdio", "sse">>, <<"sse">>,
                            <<"websocket">>, <<"websocket", "streamable-http">>},
       package_types \in {<< >>, <<"npm">>, <<"pypi">>, <<"oci">>, <<"mcpb">>,
                          <<"mcpb", "oci">>} :
        BeforeCall(ScoreCall(
            [server EXCEPT !.env_vars = env_vars, !.transport_types = transport_types,
                           !.package_types = package_types],
            github))

InitScores == ProvenanceCalls \/ MaintenanceCalls \/ PopularityCalls \/ PermissionsCalls

Scores ==
    /\ call.fn = "calculate_scores"
    /\ out = << >>
    /\ out' = <<CalculateScores(call.server, call.github, now)>>
    /\ UNCHANGED <<engine, call>>

NextScores == Scores

SpecScores == InitScores /\ [][NextScores]_vars

\* C19: each of the four category scores and the trust score that
\* calculate_scores returns is an integer from 0 to 100
C19_ScoresInRange ==
    (call.fn = "calculate_scores" /\ out # << >>) =>
        /\ out[1].trust_score \in 0..100
        /\ \A cat \in {"provenance", "maintenance", "popularity", "permissions"} :
              out[1].scores[cat] \in 0..100

\* a payload whose last push is far beyond PUSH_RECENCY_MAX_DAYS has been
\* scored, and its maintenance score is the 5 points every entry gets
C19_Witness ==
    /\ call.fn = "calculate_scores" /\ out # << >>
    /\ ~IsNone(call.github)
    /\ "github_pushed_at" \in DOMAIN Val(call.github)
    /\ Val(call.github).github_pushed_at = DaysAgo(4000)
    /\ out[1].scores.maintenance = 5

(***************************************************************************)
(* detect_flags.  ctx is the FlagContext, of which detect_flags reads      *)
(* description_ns_counts: a dict from descriptions (lowered and stripped)  *)
(* to the number of namespaces that use them.                              *)
(***************************************************************************)
\* _is_template_description
IsTemplateDescription(desc) ==
    LET lowered == Strip(Lower(desc))
    IN  lowered # << >> /\ AnyPrefix(TEMPLATE_DESCRIPTIONS, lowered)

\* _matches_staging_pattern
MatchesStagingPattern(text) == AnyIn(STAGING_PATTERNS, Lower(text))

\* has_active_repo
HasActiveRepo(server, github) ==
    /\ ~IsNone(server.repo_url)
    /\ ~IsNone(github)
    /\ ~TruthyBool(Get(Val(github), "github_archived"))
    /\ OrZero(Get(Val(github), "github_commit_weeks_active")) > 0

DeadEntry(server, github) ==
    ~server.has_packages /\ ~server.has_remotes /\ ~HasActiveRepo(server, github)

\* a detector that asks for more than five secrets
HighSecretDemand_Above(env_vars) == SecretCount(env_vars) > 5

HighSecretDemand(env_vars) == SecretCount(env_vars) >= 5

SensitiveCredRequest(env_vars) ==
    \E j \in 1..Len(env_vars) :
        AnyIn(SENSITIVE_CREDENTIAL_PATTERNS, Lower(OrEmpty(env_vars[j].name)))

RepoArchived(github) ==
    ~IsNone(github) /\ TruthyBool(Get(Val(github), "github_archived"))

NoSource(server) == IsNone(server.repo_url) /\ server.package_identifiers = << >>

DescriptionDuplicate(server, ctx) ==
    LET desc_key == Strip(Lower(OrEmpty(server.description)))
    IN  desc_key # << >> /\ GetOr(ctx.description_ns_counts, desc_key, 0) >= 3

\* flags.append(flag) when the flag's condition holds
AppendIf(flags, cond, flag) == IF cond THEN Append(flags, flag) ELSE flags

DetectFlags(server, github, ctx) ==
    LET desc == OrEmpty(server.description)
        f1 == AppendIf(<< >>, DeadEntry(server, github), "DEAD_ENTRY")
        f2 == AppendIf(f1, IsTemplateDescription(desc), "TEMPLATE_DESCRIPTION")
        f6 == AppendIf(f2,
                       /\ (MatchesStagingPattern(server.name)
                              \/ MatchesStagingPattern(server.server_id))
                       /\ IsTemplateDescription(desc),
                       "STAGING_ARTIFACT")
        f7 == AppendIf(f6, HighSecretDemand(server.env_vars), "HIGH_SECRET_DEMAND")
        f8 == AppendIf(f7, SensitiveCredRequest(server.env_vars), "SENSITIVE_CRED_REQUEST")
        f9 == AppendIf(f8, RepoArchived(github), "REPO_ARCHIVED")
        f10 == AppendIf(f9, NoSource(server), "NO_SOURCE")
    IN  AppendIf(f10, DescriptionDuplicate(server, ctx), "DESCRIPTION_DUPLICATE")

(***************************************************************************)
(* C20: detect_flags, called with entries that go through the sources, the *)
(* environment variables and the descriptions an entry can have.           *)
(***************************************************************************)
FlagContext(counts) == [description_ns_counts |-> counts]

FlagContexts ==
    {FlagContext(EmptyDict),
     FlagContext((<<"a", "n", " ", "m", "c", "p", " ", "s", "e", "r", "v", "e", "r", " ", "f",
         "o", "r", " ", "f", "i", "l", "e", "s">> :> 3) @@ (<<"q", "u", "e", "r", "y", " ", "w",
         "e", "a", "t", "h", "e", "r", " ", "d", "a", "t", "a">> :> 2)),
     FlagContext((<<"a", "n", " ", "m", "c", "p", " ", "s", "e", "r", "v", "e", "r", " ", "f",
         "o", "r", " ", "f", "i", "l", "e", "s">> :> 2) @@ (<<"q", "u", "e", "r", "y", " ", "w",
         "e", "a", "t", "h", "e", "r", " ", "d", "a", "t", "a">> :> 3))}

FlagCall(server, github, ctx) ==
    [fn |-> "detect_flags", server |-> server, github |-> github, ctx |-> ctx]

SourceCalls ==
    \E server \in Servers2, has_packages \in BOOLEAN, has_remotes \in BOOLEAN,
       repo_url \in {None, Some(GitHubUrl("org", "files"))},
       package_identifiers \in {<< >>, <<<<"f", "i", "l", "e", "s">>>>},
       archived \in {None, Some(TRUE), Some(FALSE)},
       weeks \in {None, Some(0), Some(1)},
       github \in Payloads3 :
        BeforeCall(FlagCall(
            [server EXCEPT !.has_packages = has_packages, !.has_remotes = has_remotes,
                           !.repo_url = repo_url,
                           !.package_identifiers = package_identifiers],
            IF github \in {None, Some(BlankPayload)} THEN github
            ELSE Some([Val(github) EXCEPT !.github_archived = archived,
                                          !.github_commit_weeks_active = weeks]),
            FlagContext(EmptyDict)))

SecretCalls ==
    \E server \in Servers2, github \in Payloads3, env_vars \in EnvLists :
        BeforeCall(FlagCall([server EXCEPT !.env_vars = env_vars], github,
                            FlagContext(EmptyDict)))

DescriptionCalls ==
    \E server \in Servers2, ctx \in FlagContexts,
       description \in {None, Some(<< >>), Some(<<" ", " ", "A", "n", " ", "M", "C", "P", " ",
           "S", "e", "r", "v", "e", "r", " ", "f", "o", "r", " ", "f", "i", "l", "e", "s", " ">>),
                        Some(<<"Q", "u", "e", "r", "y", " ", "w", "e", "a", "t", "h", "e", "r",
                            " ", "d", "a", "t", "a">>)},
       name \in {<<"i", "o", ".", "g", "i", "t", "h", "u", "b", ".", "o", "r", "g", "/", "f",
           "i", "l", "e", "s">>, <<"t", "e", "s", "t", "-", "s", "e", "r", "v", "e", "r">>},
       server_id \in {<<"f", "i", "l", "e", "s">>, <<"f", "i", "l", "e", "s", "-", "d", "e", "m",
           "o">>} :
        BeforeCall(FlagCall(
            [server EXCEPT !.description = description, !.name = name,
                           !.server_id = server_id],
            None, ctx))

InitFlags == SourceCalls \/ SecretCalls \/ DescriptionCalls

Flags ==
    /\ call.fn = "detect_flags"
    /\ out = << >>
    /\ out' = <<DetectFlags(call.server, call.github, call.ctx)>>
    /\ UNCHANGED <<engine, call>>

NextFlags == Flags

SpecFlags == InitFlags /\ [][NextFlags]_vars

\* the conditions of the claim, on the call's arguments
Reported(flag) == flag \in Elements(out[1])
ActiveRepo ==
    /\ ~IsNone(call.server.repo_url)
    /\ ~IsNone(call.github)
    /\ Get(Val(call.github), "github_archived") # Some(TRUE)
    /\ \E n \in 1..(MaxWeeks + 1) :
          Get(Val(call.github), "github_commit_weeks_active") = Some(n)
SecretsDeclared ==
    Cardinality({j \in 1..Len(call.server.env_vars) : call.server.env_vars[j].is_secret})

\* C20: detect_flags reports DEAD_ENTRY, HIGH_SECRET_DEMAND, NO_SOURCE and
\* REPO_ARCHIVED each exactly when its condition holds
C20_FlagsExact ==
    (call.fn = "detect_flags" /\ out # << >>) =>
        /\ Reported("DEAD_ENTRY") <=>
              (~call.server.has_packages /\ ~call.server.has_remotes /\ ~ActiveRepo)
        /\ Reported("HIGH_SECRET_DEMAND") <=> SecretsDeclared >= 5
        /\ Reported("NO_SOURCE") <=>
              (IsNone(call.server.repo_url) /\ call.server.package_identifiers = << >>)
        /\ Reported("REPO_ARCHIVED") <=>
              (~IsNone(call.github) /\ Get(Val(call.github), "github_archived") = Some(TRUE))

\* an entry with exactly five secrets, a repository and an archived payload
\* has been flagged for its secrets and its archive, and for nothing else of
\* the four
C20_Witness ==
    /\ call.fn = "detect_flags" /\ out # << >>
    /\ SecretsDeclared = 5
    /\ Reported("HIGH_SECRET_DEMAND") /\ Reported("REPO_ARCHIVED")
    /\ ~Reported("NO_SOURCE") /\ ~Reported("DEAD_ENTRY")

(***************************************************************************)
(* The retry of _fetch_participation (specification Spec).                 *)
(***************************************************************************)
\* the requests the worker of `name` has issued
WorkerRequests(name) ==
    sub[<<name, "meta">>].reqs + sub[<<name, "community">>].reqs
        + sub[<<name, "participation">>].reqs

\* what the fetcher of task t, its request out, does with the outcome o
FetchOn(t, o) == Fetch(t[2], sub[t].reqs, GetResult(o, rate_remaining, exhausted).resp)

\* when the answer to t's request arrives: the fetcher goes on to
\* asyncio.sleep(2) on a 202 to the first request of a participation
\* sub-fetch and on no other answer, and a retry answered with anything but
\* a 200 yields None
RetryRule(t) ==
    (sub[t].st = "sent" /\ sub'[t].st # "sent") =>
        \A o \in AnswersTo(t) :
            /\ FetchOn(t, o).next = "sleep" <=>
                  (t[2] = "participation" /\ sub[t].reqs = 1 /\ ~o.error /\ o.status = 202)
            /\ (sub[t].reqs = 2 /\ (o.error \/ o.status # 200)) =>
                  FetchOn(t, o) = [next |-> "done", res |-> None]

\* one worker sends at most two participation requests, one request for each
\* of the other two sub-fetches, so at most four in total
RequestBounds ==
    /\ \A t \in TaskIds : sub[t].reqs <= (IF t[2] = "participation" THEN 2 ELSE 1)
    /\ \A name \in NamesOf(servers) : WorkerRequests(name) <= SubFetchesPerWorker + 1

\* the wait of t has just ended
WaitEnds(t) == sub[t].st = "sleep" /\ sub'[t].st # "sleep"

\* C21 as stated: a participation sub-fetch that got a 202 waits once and
\* then always retries once (its second request is issued or queued for a
\* slot), a failed or 202 retry yields None, no other answer starts a wait,
\* and a worker sends at most two participation requests and four in all
C21_AlwaysOneRetry ==
    [][\A t \in TaskIds :
          /\ RetryRule(t) /\ RequestBounds'
          /\ WaitEnds(t) => sub'[t].st \in {"sent", "wait"}]_vars

\* C21: the same, except that the retry is not sent when the tracker is
\* exhausted at the end of the wait: the sub-fetch then raises the exhausted
\* signal with one request issued
C21_OneRetryUnlessExhausted ==
    [][\A t \in TaskIds :
          /\ RetryRule(t) /\ RequestBounds'
          /\ WaitEnds(t) =>
                IF exhausted
                THEN sub'[t].st = "raised" /\ sub'[t].reqs = 1
                ELSE sub'[t].st \in {"sent", "wait"}]_vars

\* C21's case: a worker whose participation sub-fetch got a 202, waited,
\* sent its retry and got a 200 has issued four requests
C21_Witness ==
    \E name \in NamesOf(servers) :
        /\ sub[<<name, "participation">>].reqs = 2
        /\ sub[<<name, "participation">>].st = "done"
        /\ ~IsNone(sub[<<name, "participation">>].res)
        /\ WorkerRequests(name) = SubFetchesPerWorker + 1

(***************************************************************************)
(* Termination (specification SpecLive).  The event loop goes on as long   *)
(* as something can be done: it runs a coroutine that is ready, or hands   *)
(* over the outcome of a request that is out (a response, an error or the  *)
(* 30 s timeout of the client) or the end of an asyncio.sleep(2).  Nothing *)
(* is assumed about the order of these, nor about when the caller calls    *)
(* enrich.                                                                 *)
(***************************************************************************)
\* a step of the run at hand
RunStep ==
    \/ ProbeResponse
    \/ LoopStep
    \/ \E t \in TaskIds : SubResponse(t)
    \/ \E t \in TaskIds : SleepDone(t)
    \/ BatchEnd
    \/ Finish

Fairness == WF_vars(RunStep)

SpecLive == Init /\ [][Next]_vars /\ Fairness

\* control is back with the caller of enrich, by a return or an exception
BackWithCaller == pc \in {"returned", "raised"}

\* C22: every run that has started gets back to its caller, having sent at
\* most the probe and four requests for each server of its work list, no
\* sub-fetch more than two; and the sub-fetches that wait for a slot are in
\* the semaphore's queue, which empties
C22_RunTerminates ==
    /\ [](sent <= 1 + (SubFetchesPerWorker + 1) * Len(work))
    /\ [](\A t \in TaskIds : sub[t].reqs <= 2)
    /\ (pc # "idle") ~> BackWithCaller
    /\ [](\A t \in TaskIds : sub[t].st = "wait" => \E j \in 1..Len(waitq) : waitq[j] = t)
    /\ (waitq # << >>) ~> (waitq = << >>)

\* C22's case: a run in which sub-fetches queued for slots and a retry was
\* sent has returned, after two batches' worth of requests or more
C22_Witness ==
    /\ pc = "returned"
    /\ \E t \in TaskIds : sub[t].reqs = 2
    /\ sent > 1 + SubFetchesPerWorker * Len(work)

(***************************************************************************)
(* Requests that are out when run returns (specification Spec).  run       *)
(* leaves `async with httpx.AsyncClient(...)`, which closes the client and *)
(* its connections, before it returns to enrich: in "merge" and after, the *)
(* client of the run is closed.                                            *)
(***************************************************************************)
ClientClosed == pc \in {"merge", "returned"}

\* C23: a request that has been sent is answered before run closes its
\* client and returns: none is outstanding, and no sub-fetch is left queued
\* or asleep, once the client is closed
C23_NoRequestAbandoned ==
    ClientClosed => \A t \in TaskIds : sub[t].st \notin {"sent", "wait", "sleep"}

(***************************************************************************)
(* Fixed answers (specification SpecFixed): FixedServers servers, the      *)
(* cache file SeedFile, and a provider that answers each request with a    *)
(* fixed response.  A profile gives the answers to the requests for one    *)
(* repository, by sub-fetch and attempt.                                   *)
(***************************************************************************)
Profile(meta, community, first, second) ==
    [q \in KindSet \X {1, 2} |->
        CASE q[1] = "meta" -> meta
          [] q[1] = "community" -> community
          [] q = <<"participation", 1>> -> first
          [] OTHER -> second]

Ok200 == Response(200, None)
ProfileSet ==
    {Profile(Ok200, Ok200, Ok200, Ok200),
     Profile(Response(500, None), TransportError, Response(202, None), Ok200),
     Profile(Ok200, Ok200, Response(202, None), Response(202, None)),
     Profile(Response(200, H99), Ok200, Ok200, Ok200),
     Profile(Ok200, Ok200, Response(202, H100), Response(200, H99)),
     Profile(Ok200, Response(500, H100), Response(202, H99), Ok200),
     Profile(Response(403, H99), Ok200, Ok200, Ok200)}

FixedNames == {ServerNames[j] : j \in 1..FixedServers}

FixedEnv(assign, probe, core) ==
    [statuses |-> {200}, headers |-> {None}, shapes |-> {"object"},
     errors |-> FALSE, probe_remaining |-> {None}, runs |-> 1, tick_days |-> {},
     quota0 |-> None,
     answers |-> Some([probe |-> probe, core |-> core,
                       sub |-> [r \in FixedNames \X KindSet \X {1, 2} |->
                                   assign[r[1]][<<r[2], r[3]>>]]])]

InitFixed ==
    \/ \E assign \in [FixedNames -> ProfileSet] :
          Idle(GitHubServers(FixedServers), FixedEnv(assign, Ok200, Some(100)), SeedFile)
    \/ \E core \in {None, Some(99)} :
          Idle(GitHubServers(FixedServers),
               FixedEnv([n \in FixedNames |-> Profile(Ok200, Ok200, Ok200, Ok200)],
                        Response(200, H100), core),
               SeedFile)

SpecFixed == InitFixed /\ [][Next]_vars

\* the fixed answer to a request
Answer(name, kind, attempt) == Val(env.answers).sub[<<name, kind, attempt>>]
\* the answer reports a remaining quota under the buffer
ReportsLow(o) ==
    /\ ~o.error /\ ~IsNone(o.header) /\ IsIntLiteral(Val(o.header))
    /\ IntOf(Val(o.header)) < GITHUB_RATE_LIMIT_BUFFER
\* the first participation request for `name` is answered 202
AsksAgain(name) ==
    ~Answer(name, "participation", 1).error /\ Answer(name, "participation", 1).status = 202
NamesIn(batch) == {batch[j].name : j \in 1..Len(batch)}

(***************************************************************************)
(* The reference schedule: in every batch the answers to the first         *)
(* requests all arrive before any wait ends.                               *)
(***************************************************************************)
LowFirst(batch) ==
    \E name \in NamesIn(batch), k \in KindSet : ReportsLow(Answer(name, k, 1))

\* the result of a sub-fetch that is not stopped by the tracker
OpenResult(name, kind) ==
    LET o1 == Answer(name, kind, 1)
        o2 == Answer(name, kind, 2)
        r1 == Fetch(kind, 1, IF o1.error THEN None ELSE Some(o1))
    IN  IF r1.next = "sleep"
        THEN Fetch(kind, 2, IF o2.error THEN None ELSE Some(o2)).res
        ELSE r1.res

ReferenceFresh(batch) ==
    [name \in {n \in NamesIn(batch) : ~(AsksAgain(n) /\ LowFirst(batch))} |->
        AssembleData(WorkItem(name).owner, OpenResult(name, "meta"),
                     OpenResult(name, "community"), OpenResult(name, "participation"))]

ReferenceExhausts(batch) ==
    \/ LowFirst(batch)
    \/ \E name \in NamesIn(batch) :
          AsksAgain(name) /\ ReportsLow(Answer(name, "participation", 2))

RECURSIVE ReferenceResults(_)
ReferenceResults(idx) ==
    IF idx >= Len(work) THEN EmptyDict
    ELSE ReferenceFresh(BatchAt(work, idx))
            @@ (IF ReferenceExhausts(BatchAt(work, idx)) THEN EmptyDict
                ELSE ReferenceResults(idx + GITHUB_CONCURRENT_REQUESTS))

\* what enrich returns under the reference schedule
ReferenceReturn ==
    LET a == Val(env.answers)
        low == \/ ReportsLow(a.probe)
               \/ ~IsNone(a.core) /\ Val(a.core) < GITHUB_RATE_LIMIT_BUFFER
    IN  StripInternal(Merge(cache0, IF low THEN EmptyDict ELSE ReferenceResults(0), now))

\* a batch in which a wait and a report of a low quota may come in either
\* order: a participation sub-fetch is answered 202 and the answer to a
\* request of another sub-fetch of the batch reports a quota under the buffer
Racy(batch) ==
    \E w \in NamesIn(batch), v \in NamesIn(batch), k \in KindSet, n \in {1, 2} :
        /\ AsksAgain(w)
        /\ <<v, k>> # <<w, "participation">>
        /\ n = 2 => (k = "participation" /\ AsksAgain(v))
        /\ ReportsLow(Answer(v, k, n))

NoRace ==
    \A idx \in 0..Len(work) :
        (idx % GITHUB_CONCURRENT_REQUESTS = 0 /\ idx < Len(work)) => ~Racy(BatchAt(work, idx))

\* C24 as stated: against fixed answers enrich returns the same mapping under
\* every schedule, that of the reference schedule
C24_Deterministic == pc = "returned" => ret = Some(ReferenceReturn)

\* C24: the same, for the runs in which no batch of the work list has both
\* such a wait and such a report
C24_DeterministicWithoutRace ==
    (pc = "returned" /\ NoRace) => ret = Some(ReferenceReturn)

\* C24's case: a run without a race has returned after two batches, the
\* tracker exhausted by the answer to a retry
C24_Witness ==
    /\ pc = "returned" /\ ~IsNone(env.answers) /\ NoRace
    /\ Len(waves) = 2
    /\ exhausted
    /\ \E t \in TaskIds : sub[t].reqs = 2

(***************************************************************************)
(* Observation (specification SpecObserve): one server, not cached; every  *)
(* request is answered 200 with one of the headers below, the probe 200 or *)
(* 500.  Each header comes with the reading int() gives for it (None for   *)
(* a ValueError).                                                          *)
(***************************************************************************)
Reading(raw, reading) == [raw |-> raw, reading |-> reading]
Readings ==
    {Reading(None, None),
     Reading(H99, Some(99)),
     Reading(H100, Some(100)),
     Reading(HBad, None),
     Reading(Header(<<"-", "1">>), Some(0 - 1)),
     Reading(Header(<<" ", "1", "_", "0", "1">>), Some(101))}
ReadingOf(raw) == (CHOOSE r \in Readings : r.raw = raw).reading

ObserveEnv(probe, core, headers) ==
    FixedEnv([n \in FixedNames |->
                 Profile(Response(200, headers["meta"]), Response(200, headers["community"]),
                         Response(200, headers["participation"]), Ok200)],
             probe, core)

InitObserve ==
    \E headers \in [KindSet -> {r.raw : r \in Readings}] :
    \E h \in {r.raw : r \in Readings} :
    \E answer \in {<<200, None>>, <<200, Some(99)>>, <<500, None>>} :
        Idle(GitHubServers(1), ObserveEnv(Response(answer[1], h), answer[2], headers), None)

\* no request is answered 202, so no sub-fetch waits
SpecObserve == InitObserve /\ [][NextFaults]_vars

\* the tracker after the step is the tracker <<remaining, exh>> with the
\* header `raw` observed: a reading r is recorded, and the flag is set when
\* r is under the buffer and left alone otherwise
Observed(raw, remaining, exh) ==
    IF IsNone(ReadingOf(raw))
    THEN [rate_remaining |-> remaining, exhausted |-> exh]
    ELSE [rate_remaining |-> ReadingOf(raw),
          exhausted |-> exh \/ Val(ReadingOf(raw)) < GITHUB_RATE_LIMIT_BUFFER]

\* the tracker after the probe's answer: its header is observed, and from a
\* 200 run then takes the remaining count of the body, itself a reading
ProbeObserved ==
    LET a == Val(env.answers)
        h == Observed(a.probe.header, rate_remaining, exhausted)
    IN  IF a.probe.status = 200
        THEN [rate_remaining |-> a.core,
              exhausted |-> h.exhausted
                               \/ (~IsNone(a.core) /\ Val(a.core) < GITHUB_RATE_LIMIT_BUFFER)]
        ELSE h

Tracker == [rate_remaining |-> rate_remaining, exhausted |-> exhausted]

C26_RefusesAtOrBelowBuffer ==
    (~IsNone(rate_remaining) /\ Val(rate_remaining) <= GITHUB_RATE_LIMIT_BUFFER) =>
        CheckRateLimit(exhausted)

(***************************************************************************)
(* The rate lock (specification SpecFixed).  The accesses to the tracker   *)
(* (_rate_remaining, _exhausted) that a step of the batch loop makes, each *)
(* with whether it is inside an `async with self._rate_lock` block.        *)
(***************************************************************************)
Access(op, field, locked) == [op |-> op, field |-> field, locked |-> locked]

\* _get's tail on the outcome o: _update_rate_limit, then the test of a 403
ResponseAccesses(o) ==
    IF o.error THEN {}
    ELSE (IF ~IsNone(o.header) /\ IsIntLiteral(Val(o.header))
          THEN {Access("write", "rate_remaining", TRUE)}
                  \cup (IF IntOf(Val(o.header)) < GITHUB_RATE_LIMIT_BUFFER
                        THEN {Access("write", "exhausted", TRUE)} ELSE {})
          ELSE {})
         \cup (IF o.status = 403 THEN {Access("read", "exhausted", FALSE)} ELSE {})

\* the accesses of the step at hand: the answer to a sub-fetch's request, the
\* rate check of a _get that starts, the test at the top of the batch loop
\* and the progress line after a batch
StepAccesses ==
    UNION {ResponseAccesses(Answer(t[1], t[2], sub[t].reqs)) :
             t \in {u \in TaskIds : sub[u].st = "sent" /\ sub'[u].st # "sent"}}
    \cup (IF \E t \in TaskIds : sub[t].st \in {"idle", "sleep"} /\ sub'[t].st # sub[t].st
          THEN {Access("read", "exhausted", TRUE)} ELSE {})
    \cup (IF pc = "loop" /\ pc' # "loop" /\ i < Len(work)
          THEN {Access("read", "exhausted", FALSE)} ELSE {})
    \cup (IF pc = "gather" /\ pc' = "loop"
          THEN {Access("read", "rate_remaining", FALSE)} ELSE {})

\* C27: from the first batch on, every read and every write of the tracker
\* is made inside a block that holds the rate lock
C27_AllAccessesLocked == [][\A a \in StepAccesses : a.locked]_vars

(***************************************************************************)
(* The capture timestamps (specification SpecClock): one run on            *)
(* FixedServers servers over a cache with a stale and a recent entry,      *)
(* against a provider that answers 200 or 500, while the clock advances    *)
(* during the run.                                                         *)
(***************************************************************************)
ClockEnv ==
    [statuses |-> {200, 500}, headers |-> {None}, shapes |-> {"object"},
     errors |-> FALSE, probe_remaining |-> {None}, runs |-> 1, tick_days |-> {},
     quota0 |-> None, answers |-> None]

\* a second passes while run awaits the probe or a batch, or before enrich
\* reads time.time() for the merge
TimePasses ==
    /\ pc \in {"probe", "loop", "gather", "merge"}
    /\ ticks < MaxTicks
    /\ now' = now + 1
    /\ ticks' = ticks + 1
    /\ UNCHANGED <<call, out, servers, env, disk, run, pc, cache, cache0, work, i, results,
                   rate_remaining, exhausted, sem, waitq, sub, sent, waves, probe_low,
                   ret, prev_ret, prev_now>>

InitClock == Idle(GitHubServers(FixedServers), ClockEnv, SeedFile)

NextClock ==
    \/ EnrichStart
    \/ ProbeResponse
    \/ LoopStep
    \/ \E t \in TaskIds : SubResponse(t)
    \/ BatchEnd
    \/ Finish
    \/ TimePasses

SpecClock == InitClock /\ [][NextClock]_vars

\* the entries of the cache file
Written(file) == LoadCache(file)

\* C28: when enrich merges, every entry the run refreshed is written with
\* the time read at the merge, the same for all of them and whatever the
\* clock showed when their responses arrived; every other entry is written
\* as it was loaded, timestamp included; and no payload returned to the
\* caller has the timestamp field
C28_StampedAtMerge ==
    [][(pc = "merge" /\ pc' = "returned") =>
          /\ \A name \in DOMAIN results :
                Get(Written(disk')[name], CachedAtKey) = Some(now)
          /\ \A name \in DOMAIN cache0 \ DOMAIN results :
                Written(disk')[name] = cache0[name]
          /\ DOMAIN Written(disk') = DOMAIN cache0 \cup DOMAIN results
          /\ \A name \in DOMAIN Val(ret') :
                CachedAtKey \notin DOMAIN Val(ret')[name]]_vars

\* a run of two batches has returned after the clock advanced: two entries
\* were refreshed, one of them cached before, and one entry was kept
C28_Witness ==
    /\ pc = "returned"
    /\ now > StartTime
    /\ Len(waves) = 2
    /\ {"a", "c"} \subseteq DOMAIN results
    /\ "z" \in DOMAIN cache0 \ DOMAIN results
    /\ \A name \in DOMAIN results : Get(cache[name], CachedAtKey) = Some(now)
    /\ Get(cache["z"], CachedAtKey) = Some(StartTime - Days(1))
    /\ "z" \in DOMAIN Val(ret)

(***************************************************************************)
(* The tracker from run to run (specification SpecRuns).                   *)
(***************************************************************************)
\* every request of these runs is answered 200, so a resolvable server is
\* missing from what the run before returned only if that run broke off
\* exhausted
PreviousRunExhausted ==
    /\ run > 1
    /\ \E name \in Resolvable(servers) : name \notin DOMAIN Val(prev_ret)

\* C29: every call of enrich starts with the remaining value unknown and
\* the exhausted flag clear, whatever the tracker of the call before held;
\* a run with a non-empty work list sends the probe as its first request,
\* the probe is sent nowhere else, and no sub-fetch request is sent before
\* the probe's answer has arrived
C29_FreshTrackerOneProbe ==
    /\ [](pc = "probe" =>
             /\ sent = 1
             /\ \A t \in TaskIds : sub[t].st = "idle" /\ sub[t].reqs = 0)
    /\ [][/\ (pc = "idle" /\ pc' # "idle") =>
                /\ IsNone(rate_remaining')
                /\ ~exhausted'
                /\ work' # << >> => (pc' = "probe" /\ sent' = 1)
                /\ work' = << >> => sent' = 0
          /\ (pc' = "probe" /\ pc # "probe") => pc = "idle"
          /\ (pc # "idle" /\ sent' > sent) => pc \in {"loop", "gather"}]_vars

\* a second run awaits its probe with a fresh tracker after a run that
\* ended exhausted
C29_Witness ==
    /\ PreviousRunExhausted
    /\ pc = "probe"
    /\ sent = 1
    /\ IsNone(rate_remaining)
    /\ ~exhausted

(***************************************************************************)
(* The batch barrier at the level of requests (specification SpecFixed).   *)
(***************************************************************************)
\* the sub-fetch has begun and has neither returned nor raised: its request
\* is in flight, it queues for a slot, or it sleeps before its retry
Outstanding(t) == sub[t].st \in {"sent", "wait", "sleep"}

\* the worker has returned although not all of its sub-fetches are done
ReturnedEarly(name) ==
    /\ WorkerFinished(name)
    /\ \E k \in KindSet : sub[<<name, k>>].st # "done"

\* C30: a batch is started only when no sub-fetch of an earlier batch is
\* outstanding and the tracker is not exhausted; every request sent is one
\* of a sub-fetch of the batch started last; and a worker that has returned
\* before its three sub-fetches were done implies an exhausted tracker,
\* with which no further batch is started
C30_RequestBarrier ==
    /\ [](\A name \in NamesOf(servers) : ReturnedEarly(name) => exhausted)
    /\ [][(pc = "loop" /\ pc' = "gather") =>
             /\ ~exhausted
             /\ \A t \in TaskIds : ~Outstanding(t)]_vars
    /\ [][\A t \in TaskIds :
             sub'[t].reqs > sub[t].reqs =>
                 /\ waves' # << >>
                 /\ \E j \in 1..Len(waves'[Len(waves')]) :
                       waves'[Len(waves')][j] = t[1]]_vars

\* a worker of the first batch has returned early while a sub-fetch of that
\* batch is outstanding, and run has left the loop without starting the
\* second batch
C30_Witness ==
    /\ pc \in {"merge", "returned"}
    /\ exhausted
    /\ Len(work) > GITHUB_CONCURRENT_REQUESTS
    /\ Len(waves) = 1
    /\ \E name \in NamesOf(servers) :
          /\ ReturnedEarly(name)
          /\ \E k \in KindSet : Outstanding(<<name, k>>)

====
